---- MODULE Spec2Model ----
(*
  A model of chelsa_download: the list/metadata store (list_manager.py), the
  job collector and the job executor (downloaders.py).

  Three state machines share the variables below:
    SpecStore   - write_list / save_metadata / load_metadata on one manifest,
                  with external edits of the manifest text;
    SpecCollect - collect_trace_jobs / collect_present_jobs over a lists
                  directory whose manifests and sidecars the store writes;
    SpecExec    - execute_jobs: the thread pool, the per-job pipeline and the
                  as_completed loop (FairSpecExec adds scheduling fairness).
*)
EXTENDS Integers, Sequences, FiniteSets, TLC

VARIABLES
    manifest,       \* list path -> None | Some(text): the manifest file
    sidecar,        \* list path -> None | Some(json document): <path>.meta.json
    savedText,      \* list path -> None | Some(text the manifest held at the last save_metadata)
    savedMd,        \* list path -> None | Some(metadata handed to the last save_metadata)
    lastCall,       \* the last store operation, its status and what it returned
    collectResult,  \* the last collect_*_jobs call: arguments, status, jobs
    jobList,        \* execute_jobs: the jobs argument
    maxWorkersArg,  \* execute_jobs: the max_workers argument (None | Some(n))
    cfgMaxWorkers,  \* config.max_workers
    pcMain,         \* the calling thread's position in execute_jobs
    pc,             \* job index -> position of the task_runner call of that job
    rd,             \* job index -> the counter value its task_runner read for `+= 1`
    exc,            \* job index -> the exception its future holds ("" for none)
    handled,        \* job index -> the as_completed loop has consumed its future
    summary,        \* the shared run summary
    overall,        \* the overall progress counter
    aoiLoaded,      \* load_aoi has been called
    outputs,        \* the output paths that exist
    tempFiles,      \* the staged files: temp path -> size
    hist,           \* job index -> what was done for the job (history)
    listing,        \* the raw listing records handed to build_*_lists
    built,          \* the last build_*_lists call: status and the mapping it returned
    fileName,       \* infer_time_id: the filename argument (its characters)
    timeId,         \* infer_time_id: the value returned
    builds,         \* the build_*_lists calls made on the listing, in order
    rclone,         \* run_rclone: its arguments, locals, position and outcome
    monitor         \* job index -> the job's progress monitor: stop event, thread, progress shown

storeVars   == <<manifest, sidecar, savedText, savedMd, lastCall>>
collectVars == <<collectResult>>
execVars    == <<jobList, maxWorkersArg, cfgMaxWorkers, pcMain, pc, rd, exc,
                 handled, summary, overall, aoiLoaded, outputs, tempFiles, hist>>
buildVars   == <<listing, built, fileName, timeId, builds>>
adapterVars == <<rclone, monitor>>
vars        == <<manifest, sidecar, savedText, savedMd, lastCall, collectResult,
                 jobList, maxWorkersArg, cfgMaxWorkers, pcMain, pc, rd, exc,
                 handled, summary, overall, aoiLoaded, outputs, tempFiles, hist,
                 listing, built, fileName, timeId, builds,
                 rclone, monitor>>

----------------------------------------------------------------------------
(* Bounds *)

\* file entries per manifest / metadata record
MaxEntries == 2
\* tokens of an externally written manifest text
MaxTextLen == 1

----------------------------------------------------------------------------
(* Python values *)

\* Optional[...]: None, or the value wrapped
None == <<>>
Some(x) == <<x>>
Val(o) == o[1]
\* the truth value of an Optional[int]
Truthy(o) == o # None /\ Val(o) # 0

\* JSON values as json.dump writes them and json.load reads them
JNull == <<"null">>
JNum(n) == <<"num", n>>
JStr(s) == <<"str", s>>
JTag(v) == v[1]
ToJson(o) == IF o = None THEN JNull ELSE JNum(Val(o))

\* str(x) and int(x) of a value read from JSON
PyStr(v) == IF JTag(v) = "null" THEN "None" ELSE v[2]
PyInt(v) == v[2]

----------------------------------------------------------------------------
(* Manifest text and its digest *)

N1 == "CHELSA_TraCE21k_bio01_-100_V1.0.tif"
N2 == "CHELSA_TraCE21k_bio01_-50_V1.0.tif"
N3 == "CHELSA_TraCE21k_bio01_0_V1.0.tif"
N4 == "CHELSA_TraCE21k_PR_20_V1.0.tif"
N5 == "README.txt"
P1 == "CHELSA_bio1_1981-2010_V.2.1.tif"
P2 == "CHELSA_bio01_1981-2010_V.2.1.tif"
P3 == "CHELSA_bio12_1981-2010_V.2.1.tif"
P4 == "CHELSA_scd_1981-2010_V.2.1.tif"
NL == "\n"
FileNames == {N1, N2}
\* a text is a sequence of tokens: file names and line breaks
Tokens == <<NL, N1, N2, N3, N4, N5, P1, P2, P3, P4>>
TokenSet == {Tokens[i] : i \in 1..Len(Tokens)}
TokIdx(t) == CHOOSE i \in 1..Len(Tokens) : Tokens[i] = t

SeqsUpTo(S, n) == UNION {[1..k -> S] : k \in 0..n}

\* "\n".join(entries)
RECURSIVE JoinLines(_)
JoinLines(entries) ==
    IF entries = <<>> THEN <<>>
    ELSE IF Len(entries) = 1 THEN <<entries[1]>>
    ELSE <<entries[1], NL>> \o JoinLines(Tail(entries))

\* the text write_list writes
ListText(entries) == JoinLines(entries) \o (IF entries # <<>> THEN <<NL>> ELSE <<>>)

\* compute_sha1: a function of the file's bytes alone, free of collisions on
\* the texts of the model (the digest is a number standing for the hex string)
RECURSIVE compute_sha1(_)
compute_sha1(text) ==
    IF text = <<>> THEN 0
    ELSE compute_sha1(SubSeq(text, 1, Len(text) - 1)) * (Len(Tokens) + 1)
         + TokIdx(text[Len(text)])

----------------------------------------------------------------------------
(* ListFileEntry, ListMetadata and their JSON form *)

Entry(n, s, t) == [name |-> n, size |-> s, time_id |-> t]

EntryToDict(e) == [name |-> JStr(e.name), size |-> ToJson(e.size), time_id |-> ToJson(e.time_id)]

\* from_dict testing the size for truth instead of `is not None`
EntryFromDictTruthy(raw) ==
    [name    |-> PyStr(raw.name),
     size    |-> IF raw.size # JNull /\ PyInt(raw.size) # 0 THEN Some(PyInt(raw.size)) ELSE None,
     time_id |-> IF raw.time_id # JNull THEN Some(PyInt(raw.time_id)) ELSE None]

EntryFromDict(raw) ==
    [name    |-> PyStr(raw.name),
     size    |-> IF raw.size # JNull THEN Some(PyInt(raw.size)) ELSE None,
     time_id |-> IF raw.time_id # JNull THEN Some(PyInt(raw.time_id)) ELSE None]

\* generated_at and source are written and read back verbatim and are read by
\* no operation of the model; stats is carried as it is
MetadataToDict(m) ==
    [kind      |-> JStr(m.kind),
     variable  |-> JStr(m.variable),
     files     |-> [i \in 1..Len(m.files) |-> EntryToDict(m.files[i])],
     list_sha1 |-> IF m.list_sha1 = None THEN JNull ELSE JStr(Val(m.list_sha1)),
     stats     |-> m.stats]

MetadataFromDict(data) ==
    [kind      |-> PyStr(data.kind),
     variable  |-> PyStr(data.variable),
     files     |-> [i \in 1..Len(data.files) |-> EntryFromDict(data.files[i])],
     list_sha1 |-> IF data.list_sha1 = JNull THEN None ELSE Some(data.list_sha1[2]),
     stats     |-> data.stats]

Metadata(k, v, fs) ==
    [kind |-> k, variable |-> v, files |-> fs, list_sha1 |-> None,
     stats |-> [count |-> Len(fs)]]

----------------------------------------------------------------------------
(* The list/metadata store *)

ListPaths == {"trace_.txt", "trace_bio01.txt", "trace_pr.txt", "present_bio01.txt"}

NoCall == [op |-> "none", path |-> "", status |-> "", md |-> None]
Call(o, p, s, m) == [op |-> o, path |-> p, status |-> s, md |-> m]

\* validate_metadata without the comparison of the digests
validate_metadata_no_compare(text, metadata) ==
    IF metadata.list_sha1 = None THEN "RuntimeError" ELSE ""

\* validate_metadata: "" when the metadata is valid, else the exception raised
validate_metadata(text, metadata) ==
    IF metadata.list_sha1 = None THEN "RuntimeError"
    ELSE IF compute_sha1(text) # Val(metadata.list_sha1) THEN "RuntimeError"
    ELSE ""

\* load_metadata that validates before it looks for the sidecar
load_metadata_validate_first(p) ==
    IF sidecar[p] = None THEN <<"RuntimeError", None>>
    ELSE LET metadata == MetadataFromDict(Val(sidecar[p]))
             err == IF manifest[p] = None THEN "FileNotFoundError"
                    ELSE validate_metadata(Val(manifest[p]), metadata)
         IN  IF err # "" THEN <<err, None>> ELSE <<"ok", Some(metadata)>>

\* load_metadata that returns what it read without validating it
load_metadata_unvalidated(p) ==
    IF sidecar[p] = None THEN <<"FileNotFoundError", None>>
    ELSE <<"ok", Some(MetadataFromDict(Val(sidecar[p])))>>

\* load_metadata as a function of the files: <<status, metadata>>
load_metadata(p) ==
    IF sidecar[p] = None THEN <<"FileNotFoundError", None>>
    ELSE LET metadata == MetadataFromDict(Val(sidecar[p]))
             err == IF manifest[p] = None THEN "FileNotFoundError"
                    ELSE validate_metadata(Val(manifest[p]), metadata)
         IN  IF err # "" THEN <<err, None>> ELSE <<"ok", Some(metadata)>>

\* ListManager.write_list(list_path, entries)
WriteList(p, entries) ==
    /\ manifest' = [manifest EXCEPT ![p] = Some(ListText(entries))]
    /\ lastCall' = Call("write_list", p, "ok", None)
    /\ UNCHANGED <<sidecar, savedText, savedMd>>

\* the manifest file is rewritten by something other than the store
ExternalEdit(p, text) ==
    /\ manifest' = [manifest EXCEPT ![p] = Some(text)]
    /\ lastCall' = Call("edit", p, "ok", None)
    /\ UNCHANGED <<sidecar, savedText, savedMd>>

\* ListManager.save_metadata(list_path, metadata)
SaveMetadata(p, metadata) ==
    IF manifest[p] = None
    THEN \* compute_sha1 cannot open the manifest
         /\ lastCall' = Call("save_metadata", p, "FileNotFoundError", None)
         /\ UNCHANGED <<manifest, sidecar, savedText, savedMd>>
    ELSE LET stamped == [metadata EXCEPT !.list_sha1 = Some(compute_sha1(Val(manifest[p])))]
         IN  /\ sidecar' = [sidecar EXCEPT ![p] = Some(MetadataToDict(stamped))]
             /\ savedText' = [savedText EXCEPT ![p] = manifest[p]]
             /\ savedMd' = [savedMd EXCEPT ![p] = Some(metadata)]
             /\ lastCall' = Call("save_metadata", p, "ok", None)
             /\ UNCHANGED manifest

\* ListManager.load_metadata(list_path)
LoadMetadata(p) ==
    /\ lastCall' = Call("load_metadata", p, load_metadata(p)[1], load_metadata(p)[2])
    /\ UNCHANGED <<manifest, sidecar, savedText, savedMd>>

----------------------------------------------------------------------------
(* File names as characters, and infer_time_id *)

\* the characters of the model's names, in code point order
CharOrder ==
    <<"-", ".", "/", "0", "1", "2", "3", "4", "5", "6", "7", "8", "9",
      "A", "B", "C", "D", "E", "F", "G", "H", "I", "J", "K", "L", "M",
      "N", "O", "P", "Q", "R", "S", "T", "U", "V", "W", "X", "Y", "Z", "_",
      "a", "b", "c", "d", "e", "f", "g", "h", "i", "j", "k", "l", "m",
      "n", "o", "p", "q", "r", "s", "t", "u", "v", "w", "x", "y", "z">>
OrdOf == [c \in {CharOrder[i] : i \in 1..Len(CharOrder)} |->
             CHOOSE i \in 1..Len(CharOrder) : CharOrder[i] = c]
Ord(c) == OrdOf[c]

\* \d, and the value of a digit
IsDigit(c) == Ord("0") <= Ord(c) /\ Ord(c) <= Ord("9")
DigitVal(c) == Ord(c) - Ord("0")
IsLetter(c) == \/ (Ord("A") <= Ord(c) /\ Ord(c) <= Ord("Z"))
               \/ (Ord("a") <= Ord(c) /\ Ord(c) <= Ord("z"))

\* str.lower
lower_char(c) ==
    IF Ord("A") <= Ord(c) /\ Ord(c) <= Ord("Z")
    THEN CharOrder[Ord(c) + (Ord("a") - Ord("A"))]
    ELSE c
lower(cs) == [i \in 1..Len(cs) |-> lower_char(cs[i])]

\* the str of a sequence of characters
RECURSIVE Str(_)
Str(cs) == IF cs = <<>> THEN "" ELSE cs[1] \o Str(Tail(cs))

\* int(text) of an optional "-" and decimal digits
RECURSIVE int_of_digits(_)
int_of_digits(ds) ==
    IF ds = <<>> THEN 0
    ELSE int_of_digits(SubSeq(ds, 1, Len(ds) - 1)) * 10 + DigitVal(ds[Len(ds)])
int_of_text(cs) == IF cs[1] = "-" THEN 0 - int_of_digits(Tail(cs)) ELSE int_of_digits(cs)

\* \d+ from position k: the position of the last digit of the run (k - 1 for no digit)
RECURSIVE DigitRunEnd(_, _)
DigitRunEnd(cs, k) ==
    IF k <= Len(cs) /\ IsDigit(cs[k]) THEN DigitRunEnd(cs, k + 1) ELSE k - 1

\* the pattern _(\d+)_ tried at position i
TimeMatchAtUnsigned(cs, i) ==
    LET k == i + 1
        e == DigitRunEnd(cs, k)
    IN  IF cs[i] = "_" /\ e >= k /\ e + 1 <= Len(cs) /\ cs[e + 1] = "_"
        THEN Some(int_of_text(SubSeq(cs, k, e)))
        ELSE None

\* the pattern _(\-?\d+)_ tried at position i: None, or int(match.group(1))
TimeMatchAt(cs, i) ==
    LET neg == i + 1 <= Len(cs) /\ cs[i + 1] = "-"
        k == IF neg THEN i + 2 ELSE i + 1
        e == DigitRunEnd(cs, k)
    IN  IF cs[i] = "_" /\ e >= k /\ e + 1 <= Len(cs) /\ cs[e + 1] = "_"
        THEN Some(int_of_text(SubSeq(cs, i + 1, e)))
        ELSE None

\* re.search: the match at the leftmost position that has one
RECURSIVE SearchTimeUnsigned(_, _)
SearchTimeUnsigned(cs, i) ==
    IF i > Len(cs) THEN None
    ELSE LET match == TimeMatchAtUnsigned(cs, i)
         IN  IF match # None THEN match ELSE SearchTimeUnsigned(cs, i + 1)

RECURSIVE SearchTime(_, _)
SearchTime(cs, i) ==
    IF i > Len(cs) THEN None
    ELSE LET match == TimeMatchAt(cs, i)
         IN  IF match # None THEN match ELSE SearchTime(cs, i + 1)

\* infer_time_id with a pattern that takes no sign
infer_time_id_unsigned(cs) == SearchTimeUnsigned(cs, 1)

\* infer_time_id(filename)
infer_time_id(cs) == SearchTime(cs, 1)

\* a call of infer_time_id(fileName): timeId is None before it and holds the
\* value returned after it
InferTimeId ==
    /\ timeId = None
    /\ timeId' = Some(infer_time_id(fileName))
    /\ UNCHANGED fileName

----------------------------------------------------------------------------
(* The names of the listings, character by character *)

cCHELSA   == <<"C", "H", "E", "L", "S", "A">>
cTraCE21k == <<"T", "r", "a", "C", "E", "2", "1", "k">>
cV10tif   == <<"V", "1", ".", "0", ".", "t", "i", "f">>
cV21tif   == <<"V", ".", "2", ".", "1", ".", "t", "i", "f">>
cPeriod   == <<"1", "9", "8", "1", "-", "2", "0", "1", "0">>
cBio      == <<"b", "i", "o">>
cScd      == <<"s", "c", "d">>
cDocs     == <<"d", "o", "c", "s">>
cU        == <<"_">>

TraceNameChars(variable, marker) ==
    cCHELSA \o cU \o cTraCE21k \o cU \o variable \o cU \o marker \o cU \o cV10tif
PresentNameChars(variable) ==
    cCHELSA \o cU \o variable \o cU \o cPeriod \o cU \o cV21tif

cN1 == TraceNameChars(cBio \o <<"0", "1">>, <<"-", "1", "0", "0">>)
cN2 == TraceNameChars(cBio \o <<"0", "1">>, <<"-", "5", "0">>)
cN3 == TraceNameChars(cBio \o <<"0", "1">>, <<"0">>)
cN4 == TraceNameChars(<<"P", "R">>, <<"2", "0">>)
cN5 == <<"R", "E", "A", "D", "M", "E", ".", "t", "x", "t">>
cP1 == PresentNameChars(cBio \o <<"1">>)
cP2 == PresentNameChars(cBio \o <<"0", "1">>)
cP3 == PresentNameChars(cBio \o <<"1", "2">>)
cP4 == PresentNameChars(cScd)

----------------------------------------------------------------------------
(* TRACE_FILENAME_RE and PRESENT_FILENAME_RE *)

\* the literal lit at position i, letters in either case (re.IGNORECASE)
LiteralAt(cs, i, lit) ==
    /\ i + Len(lit) - 1 <= Len(cs)
    /\ \A k \in 1..Len(lit) : lower_char(cs[i + k - 1]) = lower_char(lit[k])

\* [a-z0-9] under re.IGNORECASE
IsAlnum(c) == IsDigit(c) \/ IsLetter(c)

\* [a-z0-9]+ from position k: the position of the last character of the run
RECURSIVE AlnumRunEnd(_, _)
AlnumRunEnd(cs, k) ==
    IF k <= Len(cs) /\ IsAlnum(cs[k]) THEN AlnumRunEnd(cs, k + 1) ELSE k - 1

CharAt(cs, i, c) == i <= Len(cs) /\ cs[i] = c

\* CHELSA[_-]TraCE21k_([a-z0-9]+)_(\-?\d+)_ tried at position i: None, or group 1
TraceMatchAt(cs, i) ==
    LET a == i + Len(cCHELSA)                  \* the [_-]
        b == a + 1 + Len(cTraCE21k)            \* the _ before group 1
        \* e: the end of group 1, k: the first digit of group 2, f: its end
        Groups(e, k, f) ==
            IF /\ LiteralAt(cs, i, cCHELSA)
               /\ (CharAt(cs, a, "_") \/ CharAt(cs, a, "-"))
               /\ LiteralAt(cs, a + 1, cTraCE21k)
               /\ CharAt(cs, b, "_")
               /\ e >= b + 1
               /\ CharAt(cs, e + 1, "_")
               /\ f >= k
               /\ CharAt(cs, f + 1, "_")
            THEN Some(SubSeq(cs, b + 1, e))
            ELSE None
        Group2(e, k) == Groups(e, k, DigitRunEnd(cs, k))
        Group1(e) == Group2(e, IF CharAt(cs, e + 2, "-") THEN e + 3 ELSE e + 2)
    IN  Group1(AlnumRunEnd(cs, b + 1))

RECURSIVE TraceSearch(_, _)
TraceSearch(cs, i) ==
    IF i > Len(cs) THEN None
    ELSE LET match == TraceMatchAt(cs, i)
         IN  IF match # None THEN match ELSE TraceSearch(cs, i + 1)

\* \d{n} at position k
DigitsAt(cs, k, n) == k + n - 1 <= Len(cs) /\ \A d \in 0..(n - 1) : IsDigit(cs[k + d])

\* _(\d{4}-\d{4})_ at position k: the rest of PRESENT_FILENAME_RE after group 1
PeriodAt(cs, k) ==
    /\ CharAt(cs, k, "_")
    /\ DigitsAt(cs, k + 1, 4)
    /\ CharAt(cs, k + 5, "-")
    /\ DigitsAt(cs, k + 6, 4)
    /\ CharAt(cs, k + 10, "_")

\* CHELSA_(bio\d{1,2}|scd)_(\d{4}-\d{4})_ tried at position i, group 1
\* starting at g: the position after group 1, or 0 for no match
PresentGroupEnd(cs, i, g) ==
    IF ~(LiteralAt(cs, i, cCHELSA) /\ CharAt(cs, g - 1, "_")) THEN 0
    ELSE IF LiteralAt(cs, g, cBio) /\ DigitsAt(cs, g + 3, 2) /\ PeriodAt(cs, g + 5) THEN g + 5
    ELSE IF LiteralAt(cs, g, cBio) /\ DigitsAt(cs, g + 3, 1) /\ PeriodAt(cs, g + 4) THEN g + 4
    ELSE IF LiteralAt(cs, g, cScd) /\ PeriodAt(cs, g + 3) THEN g + 3
    ELSE 0

\* None, or <<group 1, group 2>>
PresentMatchAt(cs, i) ==
    LET g == i + Len(cCHELSA) + 1
        Groups(e) == IF e = 0 THEN None
                     ELSE Some(<<SubSeq(cs, g, e - 1), SubSeq(cs, e + 1, e + Len(cPeriod))>>)
    IN  Groups(PresentGroupEnd(cs, i, g))

RECURSIVE PresentSearch(_, _)
PresentSearch(cs, i) ==
    IF i > Len(cs) THEN None
    ELSE LET match == PresentMatchAt(cs, i)
         IN  IF match # None THEN match ELSE PresentSearch(cs, i + 1)

----------------------------------------------------------------------------
(* build_trace_lists and build_present_lists *)

\* one record of a raw listing (rclone lsjson): Path is None when the key is missing
Record(name, path, isdir, size) == [Name |-> name, Path |-> path, IsDir |-> isdir, Size |-> size]

\* sorted(seq, key=...): ascending, elements with equal keys in their order
\* in seq; less[<<i, j>>] tells whether the key of seq[i] is below that of seq[j]
SortedStable(seq, less) ==
    LET Rank(i) == Cardinality({j \in 1..Len(seq) :
                                   \/ less[<<j, i>>]
                                   \/ (~less[<<i, j>>] /\ j < i)}) + 1
    IN  [k \in 1..Len(seq) |-> seq[CHOOSE i \in 1..Len(seq) : Rank(i) = k]]

\* str < str
RECURSIVE LexLess(_, _)
LexLess(a, b) ==
    IF b = <<>> THEN FALSE
    ELSE IF a = <<>> THEN TRUE
    ELSE IF a[1] = b[1] THEN LexLess(Tail(a), Tail(b))
    ELSE Ord(a[1]) < Ord(b[1])

\* path.split("/", 1)[0]
RECURSIVE FirstSegment(_)
FirstSegment(cs) ==
    IF cs = <<>> \/ cs[1] = "/" THEN <<>> ELSE <<cs[1]>> \o FirstSegment(Tail(cs))

\* the group of a record in build_trace_lists: <<status, var>>
TraceVar(rec) ==
    LET Group(match) ==
            IF match # None THEN <<"ok", Str(lower(Val(match)))>>
            ELSE IF rec.Path = None THEN <<"KeyError", "">>
            ELSE <<"ok", Str(FirstSegment(Val(rec.Path)))>>
    IN  Group(TraceSearch(rec.Name, 1))

\* `infer_time_id(name) or 0`
TraceSortKey(rec) ==
    LET Or0(time_id) == IF time_id = None \/ Val(time_id) = 0 THEN 0 ELSE Val(time_id)
    IN  Or0(infer_time_id(rec.Name))
\* the order of sorted(..., reverse=True)
TraceLessDescending(r1, r2) == TraceSortKey(r1) > TraceSortKey(r2)
\* the order of the sort key
TraceLess(r1, r2) == TraceSortKey(r1) < TraceSortKey(r2)
\* sorted(entries, key=lambda item: infer_time_id(item.get("Name", "")) or 0)
TraceSorted(entries) ==
    SortedStable(entries, [ij \in (1..Len(entries)) \X (1..Len(entries)) |->
                              TraceLess(entries[ij[1]], entries[ij[2]])])

\* trace_time_id_to_ka, in tenths of a ka: (20 - time_id) / 10.0
trace_time_id_to_ka(time_id) == 20 - time_id

\* the loop of build_trace_metadata over the entries from i on: <<min_time, max_time>>
RECURSIVE TraceTimes(_, _, _, _)
TraceTimes(entries, i, min_time, max_time) ==
    IF i > Len(entries) THEN <<min_time, max_time>>
    ELSE LET Step(time_id) ==
                 LET falsy == time_id = None \/ Val(time_id) = 0
                     lo == IF min_time = None THEN time_id
                           ELSE IF falsy THEN min_time
                           ELSE IF Val(time_id) < Val(min_time) THEN time_id ELSE min_time
                     hi == IF max_time = None THEN time_id
                           ELSE IF falsy THEN max_time
                           ELSE IF Val(time_id) > Val(max_time) THEN time_id ELSE max_time
                 IN  TraceTimes(entries, i + 1, lo, hi)
         IN  Step(infer_time_id(entries[i].Name))

\* build_trace_metadata that leaves out the entries without a time marker
build_trace_metadata_marked_only(var, entries) ==
    LET Files(marked) ==
            [i \in 1..Len(marked) |->
                Entry(Str(marked[i].Name), marked[i].Size, infer_time_id(marked[i].Name))]
    IN  [kind |-> "trace", variable |-> var,
         files |-> Files(SelectSeq(entries, LAMBDA rec : infer_time_id(rec.Name) # None)),
         list_sha1 |-> None,
         stats |-> [count |-> Len(entries), time_ids |-> None, ka_bp |-> None]]

\* build_trace_metadata(var, entries, source_json)
build_trace_metadata(var, entries) ==
    LET files == [i \in 1..Len(entries) |->
                     Entry(Str(entries[i].Name), entries[i].Size, infer_time_id(entries[i].Name))]
        Stats(times) ==
            [count |-> Len(entries),
             time_ids |-> IF times[1] # None /\ times[2] # None
                          THEN Some([min |-> Val(times[1]), max |-> Val(times[2])])
                          ELSE None,
             ka_bp |-> IF times[1] # None /\ times[2] # None
                       THEN Some([min |-> trace_time_id_to_ka(Val(times[2])),
                                  max |-> trace_time_id_to_ka(Val(times[1]))])
                       ELSE None]
    IN  [kind |-> "trace", variable |-> var, files |-> files, list_sha1 |-> None,
         stats |-> Stats(TraceTimes(entries, 1, None, None))]

\* the date_range of build_present_metadata: group 2 of the last matching name
RECURSIVE PresentDateRange(_, _, _)
PresentDateRange(entries, i, date_range) ==
    IF i > Len(entries) THEN date_range
    ELSE LET Group2(match) == IF match # None THEN Some(Str(Val(match)[2])) ELSE date_range
         IN  PresentDateRange(entries, i + 1, Group2(PresentSearch(entries[i].Name, 1)))

\* build_present_metadata(var, entries): a size of 0 is recorded as None
build_present_metadata(var, entries) ==
    LET files == [i \in 1..Len(entries) |->
                     Entry(Str(entries[i].Name),
                           IF Truthy(entries[i].Size) THEN entries[i].Size ELSE None,
                           None)]
    IN  [kind |-> "present", variable |-> var, files |-> files, list_sha1 |-> None,
         stats |-> [count |-> Len(entries),
                    date_range |-> PresentDateRange(entries, 1, None)]]

\* the group without the normalisation of the bio number
PresentVarRaw(rec) ==
    LET Group(match) == IF match = None THEN None ELSE Some(Str(lower(Val(match)[1])))
    IN  Group(PresentSearch(rec.Name, 1))

\* the group of a record in build_present_lists: None (skipped), or the variable
PresentVar(rec) ==
    LET \* f"bio{n:02d}"
        Bio(n) == cBio \o <<CharOrder[Ord("0") + (n \div 10)], CharOrder[Ord("0") + (n % 10)]>>
        Normal(var_raw) ==
            IF LiteralAt(var_raw, 1, cBio)
            THEN Some(Str(Bio(int_of_text(SubSeq(var_raw, 4, Len(var_raw))))))
            ELSE Some(Str(var_raw))
        Group(match) == IF match = None THEN None ELSE Normal(lower(Val(match)[1]))
    IN  Group(PresentSearch(rec.Name, 1))

PresentLess(r1, r2) == LexLess(r1.Name, r2.Name)
\* sorted(entries, key=lambda item: item.get("Name", ""))
PresentSorted(entries) ==
    SortedStable(entries, [ij \in (1..Len(entries)) \X (1..Len(entries)) |->
                              PresentLess(entries[ij[1]], entries[ij[2]])])

\* write_list opening the manifest for appending: the new lines follow the old
WriteGroupsAppend(groups) ==
    LET Old(p) == IF p \in DOMAIN manifest /\ manifest[p] # None THEN Val(manifest[p]) ELSE <<>>
        stamped == [p \in DOMAIN groups |->
                       LET text == Old(p) \o ListText(groups[p].names)
                       IN  [text |-> text,
                            doc |-> MetadataToDict([groups[p].md EXCEPT
                                                       !.list_sha1 = Some(compute_sha1(text))])]]
        all == DOMAIN manifest \cup DOMAIN groups
    IN  /\ manifest' = [p \in all |-> IF p \in DOMAIN groups THEN Some(stamped[p].text)
                                      ELSE manifest[p]]
        /\ sidecar' = [p \in all |-> IF p \in DOMAIN groups THEN Some(stamped[p].doc)
                                     ELSE sidecar[p]]
        /\ savedText' = [p \in all |-> IF p \in DOMAIN groups THEN Some(stamped[p].text)
                                       ELSE savedText[p]]
        /\ savedMd' = [p \in all |-> IF p \in DOMAIN groups THEN Some(groups[p].md)
                                     ELSE savedMd[p]]
        /\ lastCall' = NoCall

\* the files after write_list and save_metadata for every group: groups maps
\* each list path to the filenames and the metadata of its group
WriteGroups(groups) ==
    LET stamped == [p \in DOMAIN groups |->
                       LET text == ListText(groups[p].names)
                       IN  [text |-> text,
                            doc |-> MetadataToDict([groups[p].md EXCEPT
                                                       !.list_sha1 = Some(compute_sha1(text))])]]
        all == DOMAIN manifest \cup DOMAIN groups
    IN  /\ manifest' = [p \in all |-> IF p \in DOMAIN groups THEN Some(stamped[p].text)
                                      ELSE manifest[p]]
        /\ sidecar' = [p \in all |-> IF p \in DOMAIN groups THEN Some(stamped[p].doc)
                                     ELSE sidecar[p]]
        /\ savedText' = [p \in all |-> IF p \in DOMAIN groups THEN Some(stamped[p].text)
                                       ELSE savedText[p]]
        /\ savedMd' = [p \in all |-> IF p \in DOMAIN groups THEN Some(groups[p].md)
                                     ELSE savedMd[p]]
        /\ lastCall' = NoCall

\* the names of the entries, as strings
EntryNames(entries) == [i \in 1..Len(entries) |-> Str(entries[i].Name)]

\* the list path of every variable of the written mapping
ListsOf(written) == {w[2] : w \in written}
VarOfList(written, p) == (CHOOSE w \in written : w[2] = p)[1]

\* one group: the filenames for write_list and the metadata for save_metadata
TraceGroupOf(var, entries_sorted) ==
    [names |-> EntryNames(entries_sorted), md |-> build_trace_metadata(var, entries_sorted)]
PresentGroupOf(var, entries_sorted) ==
    [names |-> EntryNames(entries_sorted), md |-> build_present_metadata(var, entries_sorted)]

\* ListManager.build_trace_lists(source_json, output_dir) on the records of source_json
BuildTraceLists ==
    LET Write(kept, written) ==
            /\ built' = [op |-> "build_trace_lists", status |-> "returned", written |-> written]
            /\ WriteGroups([p \in ListsOf(written) |->
                   TraceGroupOf(VarOfList(written, p),
                                TraceSorted(SelectSeq(kept, LAMBDA rec :
                                    TraceVar(rec)[2] = VarOfList(written, p))))])
        Group(kept, keys) ==
            IF \E i \in DOMAIN keys : keys[i][1] # "ok"
            THEN /\ built' = [op |-> "build_trace_lists", status |-> "KeyError", written |-> {}]
                 /\ UNCHANGED <<manifest, sidecar, savedText, savedMd, lastCall>>
            ELSE Write(kept, {<<keys[i][2], "trace_" \o keys[i][2] \o ".txt">> : i \in DOMAIN keys})
        Files(kept) == Group(kept, [i \in DOMAIN kept |-> TraceVar(kept[i])])
    IN  Files(SelectSeq(listing, LAMBDA rec : ~rec.IsDir))

\* ListManager.build_present_lists(records, output_dir)
BuildPresentLists ==
    LET Write(kept, written) ==
            /\ built' = [op |-> "build_present_lists", status |-> "returned", written |-> written]
            /\ WriteGroups([p \in ListsOf(written) |->
                   PresentGroupOf(VarOfList(written, p),
                                  PresentSorted(SelectSeq(kept, LAMBDA rec :
                                      PresentVar(rec) = Some(VarOfList(written, p)))))])
        Group(kept, keys) ==
            Write(kept, {<<Val(keys[i]), "present_" \o Val(keys[i]) \o ".txt">> : i \in DOMAIN keys})
        Matching(kept) == Group(kept, [i \in DOMAIN kept |-> PresentVar(kept[i])])
    IN  Matching(SelectSeq(listing, LAMBDA rec : PresentVar(rec) # None))

----------------------------------------------------------------------------
(* The job collector *)

\* config.trace / config.present (TargetConfig), config.cache_dir
TargetCfg(kind) ==
    IF kind = "trace"
    THEN [remote |-> "chelsa01_trace21k_bioclim", prefix |-> "", output_dir |-> "outputs/trace"]
    ELSE [remote |-> "chelsa02_bioclim", prefix |-> "", output_dir |-> "outputs/present"]
CacheDir == "chelsa_cache"

\* sorted(target_dir.glob(...)) orders the paths as strings
SortedListPaths == <<"present_bio01.txt", "trace_.txt", "trace_bio01.txt", "trace_pr.txt">>

\* the kind prefix a manifest name starts with, and what follows it up to ".txt"
ListPrefix(p) == IF p = "present_bio01.txt" THEN "present" ELSE "trace"
ListStem(p) ==
    CASE p = "present_bio01.txt" -> "bio01"
      [] p = "trace_bio01.txt" -> "bio01"
      [] p = "trace_pr.txt" -> "pr"
      [] OTHER -> ""

\* parse_variable_from_listfilename: (trace|present)_(.+)\.txt$ needs a non-empty variable
parse_variable_from_listfilename(p) == IF ListStem(p) # "" THEN Some(ListStem(p)) ELSE None

\* str.lower on the variable names of the model
Lower(v) == IF v = "PR" THEN "pr" ELSE IF v = "BIO01" THEN "bio01" ELSE v

\* write_list creates the manifest's directory; nothing removes it. The trace
\* manifests are in the lists directory itself (lists_subdir "."), the
\* present manifests in its subdirectory "present"
ListsDirExists(prefix) ==
    \E p \in ListPaths : manifest[p] # None /\ (prefix = "trace" \/ ListPrefix(p) = prefix)

\* iter_list_files that returns every list name of the prefix, present or not
iter_list_files_unchecked(prefix) ==
    SelectSeq(SortedListPaths, LAMBDA p : ListPrefix(p) = prefix)

\* ListManager.iter_list_files(target_dir, prefix)
iter_list_files(prefix) ==
    IF ~ListsDirExists(prefix) THEN <<>>
    ELSE SelectSeq(SortedListPaths, LAMBDA p : manifest[p] # None /\ ListPrefix(p) = prefix)

\* trace_remote_subdir / present_remote_subdir on the variable names of the model
trace_remote_subdir(variable) == IF Lower(variable) = "bio01" THEN "bio" ELSE Lower(variable)
present_remote_subdir(variable) == IF Lower(variable) = "bio01" THEN "bio" ELSE Lower(variable)

\* build_remote_path: remote, then the non-empty pieces
build_remote_path(remote, prefix, subdir, filename) ==
    <<remote>> \o SelectSeq(<<prefix, subdir, filename>>, LAMBDA part : part # "")

\* getattr(entry, a): a ListFileEntry has the fields name, size and time_id
HasAttr(entry, a) == a \in DOMAIN entry

DownloadJob(kind, variable, entry, remote_path, frc) ==
    [kind |-> kind, variable |-> variable, entry |-> entry, remote_path |-> remote_path,
     temp_path |-> <<CacheDir, entry.name>>,
     output_path |-> <<TargetCfg(kind).output_dir,
                       IF kind = "trace" THEN variable ELSE present_remote_subdir(variable),
                       entry.name, "_AOI">>,
     force |-> frc]

\* `if limit and len(jobs) >= limit`
LimitReached(limit, jobs) == limit # None /\ Val(limit) # 0 /\ Len(jobs) >= Val(limit)

\* the loop over metadata.files: <<status, jobs>>, status "" when it runs to its end
RECURSIVE CollectEntries(_, _, _, _, _, _)
CollectEntries(kind, variable, files, limit, frc, jobs) ==
    IF files = <<>> THEN <<"", jobs>>
    ELSE LET entry == Head(files)
         IN  IF ~HasAttr(entry, "path") THEN <<"AttributeError", <<>>>>
             ELSE LET remote_path ==
                          IF entry.path # ""
                          THEN <<TargetCfg(kind).remote>>
                               \o SelectSeq(<<TargetCfg(kind).prefix, entry.path>>, LAMBDA part : part # "")
                          ELSE build_remote_path(TargetCfg(kind).remote, TargetCfg(kind).prefix,
                                                 IF kind = "trace" THEN trace_remote_subdir(variable)
                                                 ELSE present_remote_subdir(variable),
                                                 entry.name)
                      more == Append(jobs, DownloadJob(kind, variable, entry, remote_path, frc))
                  IN  IF LimitReached(limit, more) THEN <<"returned", more>>
                      ELSE CollectEntries(kind, variable, Tail(files), limit, frc, more)

\* the loop over the manifests: [status, jobs, mkdirs]
RECURSIVE CollectLists(_, _, _, _, _, _, _)
CollectLists(kind, paths, selected_vars, limit, frc, jobs, mkdirs) ==
    IF paths = <<>> THEN [status |-> "returned", jobs |-> jobs, mkdirs |-> mkdirs]
    ELSE LET list_path == Head(paths)
             variable == parse_variable_from_listfilename(list_path)
         IN  IF variable = None
             THEN CollectLists(kind, Tail(paths), selected_vars, limit, frc, jobs, mkdirs)
             ELSE IF selected_vars # None /\ Lower(Val(variable)) \notin Val(selected_vars)
             THEN CollectLists(kind, Tail(paths), selected_vars, limit, frc, jobs, mkdirs)
             ELSE LET loaded == load_metadata(list_path)
                  IN  IF loaded[1] # "ok"
                      THEN [status |-> loaded[1], jobs |-> <<>>, mkdirs |-> mkdirs]
                      ELSE LET made == mkdirs \cup {IF kind = "trace" THEN Val(variable)
                                              ELSE present_remote_subdir(Val(variable))}
                               got == CollectEntries(kind, Val(variable), Val(loaded[2]).files,
                                                     limit, frc, jobs)
                           IN  IF got[1] = "" 
                               THEN CollectLists(kind, Tail(paths), selected_vars, limit, frc, got[2], made)
                               ELSE [status |-> got[1], jobs |-> got[2], mkdirs |-> made]

\* collect_trace_jobs / collect_present_jobs as a function of the files
collect_jobs(kind, vars_filter, limit, frc) ==
    CollectLists(kind, iter_list_files(kind),
                 IF vars_filter # <<>> THEN Some({Lower(vars_filter[i]) : i \in 1..Len(vars_filter)})
                 ELSE None,
                 limit, frc, <<>>, {})

CollectCall(kind, vars_filter, limit, frc) ==
    LET r == collect_jobs(kind, vars_filter, limit, frc)
    IN  collectResult' = [kind |-> kind, filter |-> vars_filter, limit |-> limit,
                          status |-> r.status, jobs |-> r.jobs, mkdirs |-> r.mkdirs]

\* collect_trace_jobs(config, manager, vars_filter, limit, force)
CollectTraceJobs(vars_filter, limit, frc) ==
    CollectCall("trace", vars_filter, limit, frc) /\ lastCall' = NoCall
    /\ UNCHANGED <<manifest, sidecar, savedText, savedMd>>

\* collect_present_jobs(config, manager, vars_filter, limit, force)
CollectPresentJobs(vars_filter, limit, frc) ==
    CollectCall("present", vars_filter, limit, frc) /\ lastCall' = NoCall
    /\ UNCHANGED <<manifest, sidecar, savedText, savedMd>>

----------------------------------------------------------------------------
(* The job executor *)

\* `config.max_workers or max_workers`: the operands exchanged
PoolSizeConfigFirst == IF cfgMaxWorkers # 0 THEN cfgMaxWorkers ELSE Val(maxWorkersArg)

\* `max_workers or config.max_workers`
PoolSize == IF Truthy(maxWorkersArg) THEN Val(maxWorkersArg) ELSE cfgMaxWorkers

Jobs == 1..Len(jobList)
NoHist == [existed |-> FALSE, skip |-> FALSE, copy |-> FALSE, staged |-> FALSE,
           mismatch |-> FALSE, clip |-> FALSE, wrote |-> FALSE, counted |-> ""]

\* a pool thread is running task_runner(job)
Running(j) == pc[j] \notin {"queued", "done"}
\* the ThreadPoolExecutor has an idle (or not yet started) thread
ThreadFree == Cardinality({j \in Jobs : Running(j)}) < PoolSize
\* the work queue is served in submission order
QueueHead(j) == pc[j] = "queued" /\ \A i \in 1..(j - 1) : pc[i] # "queued"

\* the future of job j ends with an exception
Raise(j, e) ==
    /\ pc' = [pc EXCEPT ![j] = "done"]
    /\ exc' = [exc EXCEPT ![j] = e]

\* execute_jobs that loads the AOI before it tests the job list
ExecCallAoiFirst ==
    /\ pcMain = "call"
    /\ pcMain' = IF jobList = <<>> THEN "returned" ELSE "as_completed"
    /\ summary' = [processed |-> 0, skipped |-> 0, failed |-> 0]
    /\ aoiLoaded' = TRUE
    /\ UNCHANGED <<jobList, maxWorkersArg, cfgMaxWorkers, pc, rd, exc, handled, overall,
                   outputs, tempFiles, hist>>

\* execute_jobs up to the submission of the futures
ExecCall ==
    /\ pcMain = "call"
    /\ IF jobList = <<>>
       THEN /\ pcMain' = "returned"
            /\ summary' = [processed |-> 0, skipped |-> 0, failed |-> 0]
            /\ UNCHANGED aoiLoaded
       ELSE /\ pcMain' = "as_completed"
            /\ summary' = [processed |-> 0, skipped |-> 0, failed |-> 0]
            /\ aoiLoaded' = TRUE
    /\ UNCHANGED <<jobList, maxWorkersArg, cfgMaxWorkers, pc, rd, exc, handled, overall,
                   outputs, tempFiles, hist>>

\* _download_one with the skip test reduced to `job.output_path.exists()`
StartSkipsForced(j) ==
    /\ pcMain = "as_completed"
    /\ QueueHead(j)
    /\ ThreadFree
    /\ IF jobList[j].output_path \in outputs
       THEN /\ pc' = [pc EXCEPT ![j] = "count"]
            /\ hist' = [hist EXCEPT ![j].existed = TRUE, ![j].skip = TRUE, ![j].counted = "skipped"]
       ELSE /\ pc' = [pc EXCEPT ![j] = "copy_to"]
            /\ hist' = [hist EXCEPT ![j].existed = jobList[j].output_path \in outputs,
                                    ![j].copy = TRUE]
    /\ UNCHANGED <<jobList, maxWorkersArg, cfgMaxWorkers, pcMain, rd, exc, handled, summary,
                   overall, aoiLoaded, outputs, tempFiles>>

\* a pool thread takes the next job: _download_one up to the call of copy_to
Start(j) ==
    /\ pcMain = "as_completed"
    /\ QueueHead(j)
    /\ ThreadFree
    /\ IF jobList[j].output_path \in outputs /\ ~jobList[j].force
       THEN /\ pc' = [pc EXCEPT ![j] = "count"]
            /\ hist' = [hist EXCEPT ![j].existed = TRUE, ![j].skip = TRUE, ![j].counted = "skipped"]
       ELSE /\ pc' = [pc EXCEPT ![j] = "copy_to"]
            /\ hist' = [hist EXCEPT ![j].existed = jobList[j].output_path \in outputs,
                                    ![j].copy = TRUE]
    /\ UNCHANGED <<jobList, maxWorkersArg, cfgMaxWorkers, pcMain, rd, exc, handled, summary,
                   overall, aoiLoaded, outputs, tempFiles>>

\* copy_to returns: the file is staged with some size
TransferOk(j, size) ==
    /\ pc[j] = "copy_to"
    /\ tempFiles' = [t \in DOMAIN tempFiles \cup {jobList[j].temp_path} |->
                        IF t = jobList[j].temp_path THEN size ELSE tempFiles[t]]
    /\ pc' = [pc EXCEPT ![j] = "verify"]
    /\ hist' = [hist EXCEPT ![j].staged = TRUE]
    /\ UNCHANGED <<jobList, maxWorkersArg, cfgMaxWorkers, pcMain, rd, exc, handled, summary,
                   overall, aoiLoaded, outputs>>

\* copy_to raises RcloneError after its retries
TransferFail(j) ==
    /\ pc[j] = "copy_to"
    /\ Raise(j, "RcloneError")
    /\ UNCHANGED <<jobList, maxWorkersArg, cfgMaxWorkers, pcMain, rd, handled, summary,
                   overall, aoiLoaded, outputs, tempFiles, hist>>

\* _download_one after copy_to: the size check
Verify(j) ==
    /\ pc[j] = "verify"
    /\ LET temp == jobList[j].temp_path
           size == jobList[j].entry.size
       IN  IF temp \notin DOMAIN tempFiles
           THEN \* temp_path.stat() finds no file
                Raise(j, "FileNotFoundError") /\ UNCHANGED hist
           ELSE IF Truthy(size) /\ tempFiles[temp] # Val(size)
           THEN Raise(j, "RcloneError") /\ hist' = [hist EXCEPT ![j].mismatch = TRUE]
           ELSE /\ pc' = [pc EXCEPT ![j] = "clip"]
                /\ hist' = [hist EXCEPT ![j].mismatch = (size # None /\ tempFiles[temp] # Val(size))]
                /\ UNCHANGED exc
    /\ UNCHANGED <<jobList, maxWorkersArg, cfgMaxWorkers, pcMain, rd, handled, summary,
                   overall, aoiLoaded, outputs, tempFiles>>

\* _process_one: clip_scale_and_fill returns
ClipOk(j) ==
    /\ pc[j] = "clip"
    /\ jobList[j].temp_path \in DOMAIN tempFiles
    /\ pc' = [pc EXCEPT ![j] = "write"]
    /\ hist' = [hist EXCEPT ![j].clip = TRUE]
    /\ UNCHANGED <<jobList, maxWorkersArg, cfgMaxWorkers, pcMain, rd, exc, handled, summary,
                   overall, aoiLoaded, outputs, tempFiles>>

\* _process_one: clip_scale_and_fill raises
ClipFail(j) ==
    /\ pc[j] = "clip"
    /\ Raise(j, "TransformError")
    /\ hist' = [hist EXCEPT ![j].clip = TRUE]
    /\ UNCHANGED <<jobList, maxWorkersArg, cfgMaxWorkers, pcMain, rd, handled, summary,
                   overall, aoiLoaded, outputs, tempFiles>>

\* _process_one: write_raster returns
WriteOk(j) ==
    /\ pc[j] = "write"
    /\ outputs' = outputs \cup {jobList[j].output_path}
    /\ pc' = [pc EXCEPT ![j] = "unlink"]
    /\ hist' = [hist EXCEPT ![j].wrote = TRUE]
    /\ UNCHANGED <<jobList, maxWorkersArg, cfgMaxWorkers, pcMain, rd, exc, handled, summary,
                   overall, aoiLoaded, tempFiles>>

\* _process_one: write_raster raises
WriteFail(j) ==
    /\ pc[j] = "write"
    /\ Raise(j, "TransformError")
    /\ UNCHANGED <<jobList, maxWorkersArg, cfgMaxWorkers, pcMain, rd, handled, summary,
                   overall, aoiLoaded, outputs, tempFiles, hist>>

\* _process_one: job.temp_path.unlink(missing_ok=True)
Unlink(j) ==
    /\ pc[j] = "unlink"
    /\ tempFiles' = [t \in DOMAIN tempFiles \ {jobList[j].temp_path} |-> tempFiles[t]]
    /\ pc' = [pc EXCEPT ![j] = "count"]
    /\ hist' = [hist EXCEPT ![j].counted = "processed"]
    /\ UNCHANGED <<jobList, maxWorkersArg, cfgMaxWorkers, pcMain, rd, exc, handled, summary,
                   overall, aoiLoaded, outputs>>

\* task_runner: `summary[key] += 1` reads the counter ...
CountRead(j) ==
    /\ pc[j] = "count"
    /\ rd' = [rd EXCEPT ![j] = summary[hist[j].counted]]
    /\ pc' = [pc EXCEPT ![j] = "store"]
    /\ UNCHANGED <<jobList, maxWorkersArg, cfgMaxWorkers, pcMain, exc, handled, summary,
                   overall, aoiLoaded, outputs, tempFiles, hist>>

\* ... and stores the value read plus one; task_runner returns
CountWrite(j) ==
    /\ pc[j] = "store"
    /\ summary' = [summary EXCEPT ![hist[j].counted] = rd[j] + 1]
    /\ pc' = [pc EXCEPT ![j] = "done"]
    /\ UNCHANGED <<jobList, maxWorkersArg, cfgMaxWorkers, pcMain, rd, exc, handled,
                   overall, aoiLoaded, outputs, tempFiles, hist>>

\* the as_completed loop with progress.advance(overall) in the try branch
\* instead of the finally branch
CompletedAdvanceInTry(j) ==
    /\ pcMain = "as_completed"
    /\ pc[j] = "done"
    /\ ~handled[j]
    /\ handled' = [handled EXCEPT ![j] = TRUE]
    /\ summary' = IF exc[j] # "" THEN [summary EXCEPT !.failed = @ + 1] ELSE summary
    /\ overall' = IF exc[j] # "" THEN overall ELSE overall + 1
    /\ UNCHANGED <<jobList, maxWorkersArg, cfgMaxWorkers, pcMain, pc, rd, exc,
                   aoiLoaded, outputs, tempFiles, hist>>

\* the as_completed loop takes a finished future: future.result(), the
\* failed count (written by this thread alone), progress.advance(overall)
Completed(j) ==
    /\ pcMain = "as_completed"
    /\ pc[j] = "done"
    /\ ~handled[j]
    /\ handled' = [handled EXCEPT ![j] = TRUE]
    /\ summary' = IF exc[j] # "" THEN [summary EXCEPT !.failed = @ + 1] ELSE summary
    /\ overall' = overall + 1
    /\ UNCHANGED <<jobList, maxWorkersArg, cfgMaxWorkers, pcMain, pc, rd, exc,
                   aoiLoaded, outputs, tempFiles, hist>>

\* the loop is left after the first future
ReturnAfterFirst == \E j \in Jobs : handled[j]

\* as_completed has yielded every future and the pool's shutdown(wait=True) is over
MayReturn == (\A j \in Jobs : handled[j]) /\ (\A j \in Jobs : pc[j] = "done")

\* execute_jobs returns the summary
ExecReturn ==
    /\ pcMain = "as_completed"
    /\ MayReturn
    /\ pcMain' = "returned"
    /\ UNCHANGED <<jobList, maxWorkersArg, cfgMaxWorkers, pc, rd, exc, handled, summary,
                   overall, aoiLoaded, outputs, tempFiles, hist>>

----------------------------------------------------------------------------
(* Values of the variables a state machine does not use *)

NoCollect == [kind |-> "", filter |-> <<>>, limit |-> None,
              status |-> "", jobs |-> <<>>, mkdirs |-> {}]

ExecIdle ==
    /\ jobList = <<>>
    /\ maxWorkersArg = None
    /\ cfgMaxWorkers = 1
    /\ pcMain = "idle"
    /\ pc = <<>>
    /\ rd = <<>>
    /\ exc = <<>>
    /\ handled = <<>>
    /\ summary = [processed |-> 0, skipped |-> 0, failed |-> 0]
    /\ overall = 0
    /\ aoiLoaded = FALSE
    /\ outputs = {}
    /\ tempFiles = [t \in {} |-> 0]
    /\ hist = <<>>

NoBuild == [op |-> "", status |-> "", written |-> {}]

BuildIdle ==
    /\ listing = <<>>
    /\ built = NoBuild
    /\ builds = <<>>
    /\ fileName = <<>>
    /\ timeId = None

NoRun == [retries |-> 0, attempt |-> 0, calls |-> <<>>, sleeps |-> <<>>,
          last_exc |-> None, pc |-> "idle", error |-> "", text |-> ""]

AdapterIdle ==
    /\ rclone = NoRun
    /\ monitor = <<>>

EmptyLists ==
    /\ manifest = [p \in ListPaths |-> None]
    /\ sidecar = [p \in ListPaths |-> None]
    /\ savedText = [p \in ListPaths |-> None]
    /\ savedMd = [p \in ListPaths |-> None]
    /\ lastCall = NoCall

----------------------------------------------------------------------------
(* SpecStore: the store's operations on one manifest *)

StorePath == "trace_bio01.txt"

StoreEntries ==
    {Entry(N1, Some(0), None), Entry(N2, Some(1024), Some(-50))}

StoreMetadata ==
    {Metadata(k, "bio01", fs) : k \in {"trace", "present"}, fs \in SeqsUpTo(StoreEntries, MaxEntries)}

StoreWrite == \E entries \in SeqsUpTo(FileNames, MaxEntries) : WriteList(StorePath, entries)
StoreEdit  ==
    \E text \in SeqsUpTo({NL} \cup FileNames, MaxTextLen) : ExternalEdit(StorePath, text)
StoreSave  == \E metadata \in StoreMetadata : SaveMetadata(StorePath, metadata)
StoreLoad  == LoadMetadata(StorePath)

InitStore == EmptyLists /\ collectResult = NoCollect /\ ExecIdle /\ AdapterIdle /\ BuildIdle

NextStore ==
    \/ StoreWrite /\ UNCHANGED collectVars /\ UNCHANGED execVars /\ UNCHANGED buildVars /\ UNCHANGED adapterVars
    \/ StoreEdit /\ UNCHANGED collectVars /\ UNCHANGED execVars /\ UNCHANGED buildVars /\ UNCHANGED adapterVars
    \/ StoreSave /\ UNCHANGED collectVars /\ UNCHANGED execVars /\ UNCHANGED buildVars /\ UNCHANGED adapterVars
    \/ StoreLoad /\ UNCHANGED collectVars /\ UNCHANGED execVars /\ UNCHANGED buildVars /\ UNCHANGED adapterVars

SpecStore == InitStore /\ [][NextStore]_vars

Loaded(p) == lastCall.op = "load_metadata" /\ lastCall.path = p

\* C1: load_metadata returns metadata only when the list_sha1 stored in the
\* sidecar equals the digest of the manifest text at load time; a load of a
\* manifest whose text differs from the text it held at save_metadata fails
\* with RuntimeError and returns no metadata.
C1_LoadOnlyWhenDigestMatches ==
    \A p \in ListPaths :
        Loaded(p) =>
            /\ lastCall.md # None =>
                   /\ lastCall.status = "ok"
                   /\ sidecar[p] # None /\ manifest[p] # None
                   /\ Val(sidecar[p]).list_sha1 = JStr(compute_sha1(Val(manifest[p])))
            /\ (sidecar[p] # None /\ manifest[p] # savedText[p]) =>
                   /\ lastCall.status = "RuntimeError"
                   /\ lastCall.md = None

C1_Witness ==
    /\ Loaded(StorePath)
    /\ sidecar[StorePath] # None
    /\ manifest[StorePath] # savedText[StorePath]
    /\ lastCall.status = "RuntimeError"

\* C2: a load_metadata of a manifest whose text is the text it held at the
\* last save_metadata succeeds and returns metadata whose list_sha1 is the
\* manifest's current digest and whose kind, variable and ordered file
\* entries (name, size, time_id) are those that were saved.
C2_SaveLoadRoundTrip ==
    \A p \in ListPaths :
        (Loaded(p) /\ sidecar[p] # None /\ manifest[p] = savedText[p]) =>
            /\ lastCall.status = "ok"
            /\ lastCall.md # None
            /\ Val(lastCall.md).list_sha1 = Some(compute_sha1(Val(manifest[p])))
            /\ Val(lastCall.md).kind = Val(savedMd[p]).kind
            /\ Val(lastCall.md).variable = Val(savedMd[p]).variable
            /\ Val(lastCall.md).files = Val(savedMd[p]).files

C2_Witness ==
    /\ Loaded(StorePath)
    /\ lastCall.status = "ok"
    /\ manifest[StorePath] = savedText[StorePath]
    /\ Val(lastCall.md).files = <<Entry(N1, Some(0), None), Entry(N2, Some(1024), Some(-50))>>

\* C3: a load_metadata of a manifest whose sidecar does not exist fails with
\* FileNotFoundError whatever the manifest holds, returns nothing, and leaves
\* the manifest as it was and the sidecar absent.
C3_MissingSidecarNotFound ==
    [][\A p \in ListPaths :
          (sidecar[p] = None /\ lastCall' # lastCall
             /\ lastCall'.op = "load_metadata" /\ lastCall'.path = p) =>
              /\ lastCall'.status = "FileNotFoundError"
              /\ lastCall'.md = None
              /\ manifest' = manifest
              /\ sidecar' = sidecar]_vars

C3_Witness ==
    /\ Loaded(StorePath)
    /\ lastCall.status = "FileNotFoundError"
    /\ sidecar[StorePath] = None
    /\ manifest[StorePath] = Some(<<N2, NL>>)

----------------------------------------------------------------------------
(* SpecCollect: the collectors over a lists directory the store writes *)

\* the largest --limit
MaxLimit == 1

Filters == {<<>>, <<"PR">>}
Limits == {None} \cup {Some(n) : n \in 0..MaxLimit}

\* the file names prepare-lists finds for a variable: none, or one
Listings(p) == IF p = "trace_.txt" THEN {<<>>} ELSE {<<>>, <<N1>>}
ListedEntry(name) == Entry(name, Some(1024), Some(-100))

\* prepare-lists for one variable: the manifest and its sidecar are written
\* together (write_list, then save_metadata of the same entries)
PrepareList(p, names) ==
    LET text == ListText(names)
        metadata == Metadata(ListPrefix(p), ListStem(p),
                             [i \in 1..Len(names) |-> ListedEntry(names[i])])
        stamped == [metadata EXCEPT !.list_sha1 = Some(compute_sha1(text))]
    IN  /\ manifest' = [manifest EXCEPT ![p] = Some(text)]
        /\ sidecar' = [sidecar EXCEPT ![p] = Some(MetadataToDict(stamped))]
        /\ savedText' = [savedText EXCEPT ![p] = Some(text)]
        /\ savedMd' = [savedMd EXCEPT ![p] = Some(metadata)]
        /\ lastCall' = Call("save_metadata", p, "ok", None)

CollectPrepare ==
    \E p \in ListPaths \ {"trace_.txt"} : \E names \in Listings(p) : PrepareList(p, names)
\* a manifest is written without its sidecar (by hand, or by another tool)
CollectWrite == \E p \in ListPaths : \E names \in Listings(p) : WriteList(p, names)
CollectTrace ==
    \E f \in Filters, l \in Limits, frc \in BOOLEAN : CollectTraceJobs(f, l, frc)
CollectPresent ==
    \E f \in Filters, l \in Limits, frc \in BOOLEAN : CollectPresentJobs(f, l, frc)

InitCollect == EmptyLists /\ collectResult = NoCollect /\ ExecIdle /\ AdapterIdle /\ BuildIdle

\* collectResult is the outcome of a call on the files as they are: a change
\* of the files clears it
NextCollect ==
    \/ CollectPrepare /\ collectResult' = NoCollect /\ UNCHANGED execVars /\ UNCHANGED buildVars /\ UNCHANGED adapterVars
    \/ CollectWrite /\ collectResult' = NoCollect /\ UNCHANGED execVars /\ UNCHANGED buildVars /\ UNCHANGED adapterVars
    \/ CollectTrace /\ UNCHANGED execVars /\ UNCHANGED buildVars /\ UNCHANGED adapterVars
    \/ CollectPresent /\ UNCHANGED execVars /\ UNCHANGED buildVars /\ UNCHANGED adapterVars

SpecCollect == InitCollect /\ [][NextCollect]_vars

\* the manifests a call enumerates, parses and does not filter out
SelectedLists(kind, vars_filter) ==
    {p \in ListPaths :
        /\ manifest[p] # None
        /\ ListPrefix(p) = kind
        /\ ListStem(p) # ""
        /\ vars_filter # <<>> =>
               \E i \in 1..Len(vars_filter) : Lower(vars_filter[i]) = Lower(ListStem(p))}

StaleList(p) ==
    \/ sidecar[p] = None
    \/ Val(sidecar[p]).list_sha1 # JStr(compute_sha1(Val(manifest[p])))

SelectedSeq(kind, vars_filter) ==
    SelectSeq(SortedListPaths, LAMBDA p : p \in SelectedLists(kind, vars_filter))

\* <<manifest, file entry>> for every file entry of the manifests, in order
RECURSIVE AvailableEntries(_)
AvailableEntries(paths) ==
    IF paths = <<>> THEN <<>>
    ELSE LET files == MetadataFromDict(Val(sidecar[Head(paths)])).files
         IN  [i \in 1..Len(files) |-> <<Head(paths), files[i]>>]
             \o AvailableEntries(Tail(paths))

\* a call was made and every manifest it selects is valid
CollectedValid ==
    /\ collectResult.kind # ""
    /\ \A p \in SelectedLists(collectResult.kind, collectResult.filter) : ~StaleList(p)

Available == AvailableEntries(SelectedSeq(collectResult.kind, collectResult.filter))

Min(a, b) == IF a <= b THEN a ELSE b

\* C11: a call with limit N over valid manifests returns N jobs when N or more
\* file entries are available over all the selected variables together, and
\* all of them when fewer are.
C11_JobCountLimit ==
    (CollectedValid /\ collectResult.limit # None) =>
        /\ collectResult.status = "returned"
        /\ Len(collectResult.jobs) = Min(Val(collectResult.limit), Len(Available))

\* C12: a call without limit over valid manifests returns one job per file
\* entry, in manifest and entry order, each with the entry it was made from
\* and the remote path remote:prefix/subdir/filename (no ListFileEntry
\* records a relative path of its own).
C12_OneJobPerEntry ==
    (CollectedValid /\ collectResult.limit = None) =>
        /\ collectResult.status = "returned"
        /\ Len(collectResult.jobs) = Len(Available)
        /\ \A i \in 1..Len(collectResult.jobs) :
               LET job == collectResult.jobs[i]
                   variable == ListStem(Available[i][1])
                   cfg == TargetCfg(collectResult.kind)
                   subdir == IF collectResult.kind = "trace" THEN trace_remote_subdir(variable)
                             ELSE present_remote_subdir(variable)
               IN  /\ job.kind = collectResult.kind
                   /\ job.variable = variable
                   /\ job.entry = Available[i][2]
                   /\ job.remote_path =
                          build_remote_path(cfg.remote, cfg.prefix, subdir, job.entry.name)

\* C19: when the manifest directory of the kind does not exist,
\* iter_list_files returns the empty sequence and the collector returns an
\* empty job list: it raises nothing, loads no metadata (a load would raise,
\* there being no sidecar) and creates no output directory.
C19_MissingListsDir ==
    (collectResult.kind # "" /\ ~ListsDirExists(collectResult.kind)) =>
        /\ iter_list_files(collectResult.kind) = <<>>
        /\ collectResult.status = "returned"
        /\ collectResult.jobs = <<>>
        /\ collectResult.mkdirs = {}

\* the present-day collector is called when only the trace directory exists,
\* holding a manifest without sidecar
C19_Witness ==
    /\ collectResult.kind = "present"
    /\ ~ListsDirExists("present")
    /\ manifest["trace_bio01.txt"] # None /\ sidecar["trace_bio01.txt"] = None
    /\ collectResult.status = "returned"
    /\ collectResult.jobs = <<>>

----------------------------------------------------------------------------
(* SpecExec: one call of execute_jobs *)

\* jobs handed to execute_jobs
NJobs == 2
\* the largest worker count
MaxWorkers == 2

\* the jobs of the model: two of them stage the same file name, one records
\* no size, one the size 0
JobTypes ==
    {<<"bio01", Entry(N1, None, Some(-100))>>,
     <<"pr", Entry(N1, Some(1), Some(-100))>>,
     <<"bio01", Entry(N2, Some(0), Some(-50))>>}
StagedSizes == {0, 1}

JobOf(t, frc) ==
    DownloadJob("trace", t[1], t[2],
                build_remote_path(TargetCfg("trace").remote, TargetCfg("trace").prefix,
                                  trace_remote_subdir(t[1]), t[2].name),
                frc)

JobLists ==
    {[j \in 1..Len(ts) |-> JobOf(ts[j], frc)] : ts \in SeqsUpTo(JobTypes, NJobs), frc \in BOOLEAN}

\* (max_workers argument, config.max_workers): no override, or an override
\* below the configured count
WorkerConfigs == {<<None, c>> : c \in 1..MaxWorkers} \cup {<<Some(1), MaxWorkers>>}

InitExec ==
    /\ EmptyLists
    /\ BuildIdle
    /\ AdapterIdle
    /\ collectResult = NoCollect
    /\ jobList \in JobLists
    /\ \E w \in WorkerConfigs : maxWorkersArg = w[1] /\ cfgMaxWorkers = w[2]
    /\ pcMain = "call"
    /\ pc = [j \in Jobs |-> "queued"]
    /\ rd = [j \in Jobs |-> 0]
    /\ exc = [j \in Jobs |-> ""]
    /\ handled = [j \in Jobs |-> FALSE]
    /\ summary = [processed |-> 0, skipped |-> 0, failed |-> 0]
    /\ overall = 0
    /\ aoiLoaded = FALSE
    /\ outputs \in SUBSET {jobList[j].output_path : j \in Jobs}
    /\ tempFiles = [t \in {} |-> 0]
    /\ hist = [j \in Jobs |-> NoHist]

NextExec ==
    \/ ExecCall /\ UNCHANGED storeVars /\ UNCHANGED collectVars /\ UNCHANGED buildVars /\ UNCHANGED adapterVars
    \/ \E j \in Jobs : Start(j) /\ UNCHANGED storeVars /\ UNCHANGED collectVars /\ UNCHANGED buildVars /\ UNCHANGED adapterVars
    \/ \E j \in Jobs, size \in StagedSizes :
           TransferOk(j, size) /\ UNCHANGED storeVars /\ UNCHANGED collectVars
                               /\ UNCHANGED buildVars /\ UNCHANGED adapterVars
    \/ \E j \in Jobs : TransferFail(j) /\ UNCHANGED storeVars /\ UNCHANGED collectVars /\ UNCHANGED buildVars /\ UNCHANGED adapterVars
    \/ \E j \in Jobs : Verify(j) /\ UNCHANGED storeVars /\ UNCHANGED collectVars /\ UNCHANGED buildVars /\ UNCHANGED adapterVars
    \/ \E j \in Jobs : ClipOk(j) /\ UNCHANGED storeVars /\ UNCHANGED collectVars /\ UNCHANGED buildVars /\ UNCHANGED adapterVars
    \/ \E j \in Jobs : ClipFail(j) /\ UNCHANGED storeVars /\ UNCHANGED collectVars /\ UNCHANGED buildVars /\ UNCHANGED adapterVars
    \/ \E j \in Jobs : WriteOk(j) /\ UNCHANGED storeVars /\ UNCHANGED collectVars /\ UNCHANGED buildVars /\ UNCHANGED adapterVars
    \/ \E j \in Jobs : WriteFail(j) /\ UNCHANGED storeVars /\ UNCHANGED collectVars /\ UNCHANGED buildVars /\ UNCHANGED adapterVars
    \/ \E j \in Jobs : Unlink(j) /\ UNCHANGED storeVars /\ UNCHANGED collectVars /\ UNCHANGED buildVars /\ UNCHANGED adapterVars
    \/ \E j \in Jobs : CountRead(j) /\ UNCHANGED storeVars /\ UNCHANGED collectVars /\ UNCHANGED buildVars /\ UNCHANGED adapterVars
    \/ \E j \in Jobs : CountWrite(j) /\ UNCHANGED storeVars /\ UNCHANGED collectVars /\ UNCHANGED buildVars /\ UNCHANGED adapterVars
    \/ \E j \in Jobs : Completed(j) /\ UNCHANGED storeVars /\ UNCHANGED collectVars /\ UNCHANGED buildVars /\ UNCHANGED adapterVars
    \/ ExecReturn /\ UNCHANGED storeVars /\ UNCHANGED collectVars /\ UNCHANGED buildVars /\ UNCHANGED adapterVars

SpecExec == InitExec /\ [][NextExec]_vars

\* the pool's threads run, and every transfer and transform call ends; the
\* calls taken are those without --force
InitExecFair == InitExec /\ \A j \in Jobs : ~jobList[j].force
FairSpecExec == InitExecFair /\ [][NextExec]_vars /\ WF_vars(NextExec)

Returned == pcMain = "returned"
SkipEligible(j) == hist[j].existed /\ ~jobList[j].force
NoWorkDone(j) == ~hist[j].copy /\ ~hist[j].staged /\ ~hist[j].clip /\ ~hist[j].wrote

\* the part of the skip rule that is about the work: a job whose output
\* existed when it started, and that is not forced, is never transferred,
\* staged, clipped or written
SkipRuleNoWork == \A j \in Jobs : SkipEligible(j) => NoWorkDone(j)

\* C5: every job whose output_path exists when the job starts and whose force
\* flag is not set is counted in skipped (the returned summary counts each of
\* them), and copy_to, clip and write are never invoked for it and its temp
\* file is never created.
C5_SkipRule ==
    /\ SkipRuleNoWork
    /\ Returned => summary.skipped = Cardinality({j \in Jobs : SkipEligible(j)})

\* C6: whatever jobs fail, execute_jobs returns a summary in which failed is
\* the number of jobs that raised, processed the number of jobs transferred
\* and transformed, and skipped the number of jobs skipped.
C6_FailureIsolation ==
    Returned =>
        /\ \A j \in Jobs : pc[j] = "done"
        /\ summary.failed = Cardinality({j \in Jobs : exc[j] # ""})
        /\ summary.processed = Cardinality({j \in Jobs : hist[j].wrote /\ exc[j] = ""})
        /\ summary.skipped = Cardinality({j \in Jobs : hist[j].skip})

\* C7: no two threads are inside a read-modify-write of the summary at the
\* same time, and no increment is lost.
C7_CountersUnderMutex ==
    /\ Cardinality({j \in Jobs : pc[j] = "store"}) <= 1
    /\ Returned => summary.processed + summary.skipped + summary.failed = Len(jobList)

\* C8: a job whose entry records a size (0 included) and whose staged file has
\* another size fails: it is never clipped and never counted processed.
C8_SizeVerified ==
    \A j \in Jobs :
        (jobList[j].entry.size # None /\ hist[j].mismatch) =>
            /\ ~hist[j].clip
            /\ hist[j].counted # "processed"
            /\ pc[j] = "done" => exc[j] = "RcloneError"

\* C13: execute_jobs called with no job returns processed=0, skipped=0,
\* failed=0 at once: the AOI is not loaded, nothing is staged or written and
\* the progress counter is not advanced.
C13_EmptyInput ==
    (jobList = <<>> /\ pcMain # "call") =>
        /\ pcMain = "returned"
        /\ summary = [processed |-> 0, skipped |-> 0, failed |-> 0]
        /\ ~aoiLoaded
        /\ DOMAIN tempFiles = {}
        /\ outputs = {}
        /\ overall = 0

C13_Witness == jobList = <<>> /\ pcMain = "returned" /\ ~aoiLoaded

InPhase == {j \in Jobs : pc[j] \in {"copy_to", "verify", "clip", "write"}}
WorkerBound == IF maxWorkersArg # None THEN Val(maxWorkersArg) ELSE cfgMaxWorkers

C10_WaitsForEveryJob ==
    /\ [](Returned => \A j \in Jobs : pc[j] = "done")
    /\ <>Returned

C10_Witness ==
    /\ Returned
    /\ Len(jobList) = 2
    /\ exc[1] = "RcloneError"
    /\ hist[2].wrote /\ exc[2] = ""

\* the jobs whose clip or write raised
TransformFailed == {j \in Jobs : exc[j] = "TransformError"}

\* C18: a job whose transform (clip or write) raises is counted failed, the
\* run goes on to its end, and the job's temp file is not in the staging
\* directory when execute_jobs has returned.
C18_TransformCleanup ==
    Returned =>
        /\ \A j \in Jobs : pc[j] = "done" /\ handled[j]
        /\ summary.failed = Cardinality({j \in Jobs : exc[j] # ""})
        /\ \A j \in TransformFailed : jobList[j].temp_path \notin DOMAIN tempFiles

\* C20: a job with the force flag is never counted skipped; once started it
\* is transferred, it is clipped and written only after its file was staged,
\* and when it ends without an exception its output has been written, also
\* when the output existed before.
C20_ForceOverwrites ==
    /\ \A j \in Jobs :
           jobList[j].force =>
               /\ ~hist[j].skip /\ hist[j].counted # "skipped"
               /\ pc[j] # "queued" => hist[j].copy
               /\ hist[j].clip => hist[j].staged
               /\ hist[j].wrote => hist[j].clip
               /\ (pc[j] = "done" /\ exc[j] = "") =>
                      /\ hist[j].wrote
                      /\ jobList[j].output_path \in outputs
    /\ (\A j \in Jobs : jobList[j].force) => summary.skipped = 0

\* a forced job whose output existed has been transferred and written, and
\* the run has returned with nothing skipped
C20_Witness ==
    /\ Returned
    /\ \E j \in Jobs :
           /\ jobList[j].force
           /\ hist[j].existed /\ hist[j].copy /\ hist[j].staged /\ hist[j].wrote
           /\ exc[j] = ""
    /\ summary.skipped = 0

\* the job has been counted processed: its `summary["processed"] += 1` is over
CountedProcessed(j) == pc[j] = "done" /\ hist[j].counted = "processed"

\* the order of the steps of a job that is not skipped: transfer, size check,
\* transform (clip, then write), deletion of the temp file, processed
PipelineOrder(j) ==
    /\ hist[j].staged => hist[j].copy
    /\ pc[j] \in {"clip", "write", "unlink"} => hist[j].staged
    /\ hist[j].clip => hist[j].staged
    /\ hist[j].wrote => hist[j].clip
    /\ hist[j].counted = "processed" => hist[j].wrote
    /\ pc[j] \in {"copy_to", "verify", "clip", "write", "unlink"} => hist[j].counted = ""

\* C22: the steps of every job that is not skipped occur in the order
\* transfer, size check, transform, temp-file deletion, processed increment;
\* a job is counted processed only after its output was written, and the temp
\* file of a job counted processed does not exist.
C22_PipelineOrder ==
    \A j \in Jobs :
        ~hist[j].skip =>
            /\ PipelineOrder(j)
            /\ CountedProcessed(j) =>
                   /\ hist[j].wrote
                   /\ jobList[j].temp_path \notin DOMAIN tempFiles

C24_OverallProgress ==
    /\ overall = Cardinality({j \in Jobs : handled[j]})
    /\ overall <= Len(jobList)
    /\ Returned => overall = Len(jobList)

\* a run of two jobs has returned: one job failed, the other did not
C24_Witness ==
    /\ Returned
    /\ Len(jobList) = 2
    /\ exc[1] # "" /\ exc[2] = ""
    /\ overall = 2

\* C27: clip and write are invoked for a job only after its transfer has
\* returned and its size check has passed: never for a job whose transfer
\* raised or whose staged size was not the recorded size.
C27_TransformAfterVerifiedTransfer ==
    \A j \in Jobs :
        (hist[j].clip \/ hist[j].wrote \/ pc[j] \in {"clip", "write"}) =>
            /\ hist[j].staged
            /\ exc[j] # "RcloneError"
            /\ ~hist[j].mismatch

----------------------------------------------------------------------------
(* SpecInfer: infer_time_id on every short filename over a small alphabet *)

\* characters of a filename
MaxNameLen == 5

NameAlphabet == {"_", "-", "0", "1", "a"}

InitInfer ==
    /\ EmptyLists /\ collectResult = NoCollect /\ ExecIdle /\ AdapterIdle
    /\ listing = <<>>
    /\ built = NoBuild
    /\ builds = <<>>
    /\ fileName \in SeqsUpTo(NameAlphabet, MaxNameLen)
    /\ timeId = None

NextInfer ==
    InferTimeId /\ UNCHANGED <<listing, built, builds>>
                /\ UNCHANGED storeVars /\ UNCHANGED collectVars /\ UNCHANGED execVars /\ UNCHANGED adapterVars

SpecInfer == InitInfer /\ [][NextInfer]_vars

\* an optional "-" and one or more digits
IsIntText(cs) ==
    /\ cs # <<>>
    /\ LET ds == IF cs[1] = "-" THEN Tail(cs) ELSE cs
       IN  ds # <<>> /\ \A i \in 1..Len(ds) : IsDigit(ds[i])

\* the places <<i, j>> of a filename where an integer stands between two underscores
MarkerPlaces(cs) ==
    {pl \in (1..Len(cs)) \X (1..Len(cs)) :
        /\ pl[1] < pl[2]
        /\ cs[pl[1]] = "_" /\ cs[pl[2]] = "_"
        /\ IsIntText(SubSeq(cs, pl[1] + 1, pl[2] - 1))}

\* C16: for a filename that holds the pattern _<int>_, infer_time_id returns
\* the integer of the pattern (of the leftmost one when there are several);
\* for a filename without the pattern it returns None.
C16_InferTimeId ==
    timeId # None =>
        IF MarkerPlaces(fileName) = {} THEN Val(timeId) = None
        ELSE LET pl == CHOOSE q \in MarkerPlaces(fileName) :
                           \A r \in MarkerPlaces(fileName) : q[1] <= r[1]
             IN  Val(timeId) = Some(int_of_text(SubSeq(fileName, pl[1] + 1, pl[2] - 1)))

\* a negative marker after an underscore that opens no marker
C16_Witness ==
    /\ fileName = <<"_", "a", "_", "-", "1", "_">> \/ fileName = <<"a", "_", "-", "1", "_">>
    /\ timeId = Some(Some(-1))

----------------------------------------------------------------------------
(* SpecBuild: build_trace_lists and build_present_lists on one raw listing *)

\* the records an rclone listing of the TraCE21k remote can hold:
\* files with and without Size and Path, and a directory
TraceRecords ==
    {Record(cN1, Some(cN1), FALSE, Some(1024)),
     Record(cN2, Some(cN2), FALSE, Some(2048)),
     Record(cN3, Some(cN3), FALSE, Some(512)),
     Record(cN4, Some(cN4), FALSE, None),
     Record(cN5, Some(cDocs \o <<"/">> \o cN5), FALSE, Some(12)),
     Record(cN5, None, FALSE, Some(12)),
     Record(cDocs, Some(cDocs), TRUE, Some(-1))}

\* the records an rclone listing of the present-day remote can hold
PresentRecords ==
    {Record(cP1, Some(cP1), FALSE, Some(0)),
     Record(cP2, Some(cP2), FALSE, Some(1024)),
     Record(cP3, Some(cP3), FALSE, Some(1024)),
     Record(cP4, Some(cP4), FALSE, None),
     Record(cN5, Some(cN5), FALSE, Some(12))}

\* build_*_lists calls on one listing
MaxBuilds == 2

InitBuild ==
    /\ EmptyLists /\ collectResult = NoCollect /\ ExecIdle /\ AdapterIdle
    /\ builds = <<>>
    /\ listing \in SeqsUpTo(TraceRecords, MaxEntries) \cup SeqsUpTo(PresentRecords, MaxEntries)
    /\ built = NoBuild
    /\ fileName = <<>>
    /\ timeId = None

\* prepare-lists run again and again on the same listing, MaxBuilds times at most
NextBuild ==
    \/ BuildTraceLists /\ Len(builds) < MaxBuilds
                       /\ builds' = Append(builds, "build_trace_lists")
                       /\ UNCHANGED <<listing, fileName, timeId>>
                       /\ UNCHANGED collectVars /\ UNCHANGED execVars /\ UNCHANGED adapterVars
    \/ BuildPresentLists /\ Len(builds) < MaxBuilds
                         /\ builds' = Append(builds, "build_present_lists")
                         /\ UNCHANGED <<listing, fileName, timeId>>
                         /\ UNCHANGED collectVars /\ UNCHANGED execVars /\ UNCHANGED adapterVars

SpecBuild == InitBuild /\ [][NextBuild]_vars

TraceBuilt == built.op = "build_trace_lists" /\ built.status = "returned"
PresentBuilt == built.op = "build_present_lists" /\ built.status = "returned"

\* the records of the listing that build_trace_lists puts in the group var
TraceGroup(var) ==
    SelectSeq(listing, LAMBDA rec : ~rec.IsDir /\ TraceVar(rec) = <<"ok", var>>)

\* the time marker of a name, 0 for a name without one
Marker(name) == IF infer_time_id(name) = None THEN 0 ELSE Val(infer_time_id(name))

Perms(n) == {f \in [1..n -> 1..n] : \A i, j \in 1..n : i # j => f[i] # f[j]}

\* C14: every manifest build_trace_lists writes holds the names of its group,
\* one per line, in ascending order of the time marker (0 for a name without
\* one), names with equal markers in the order of the listing.
C14_TraceListsSorted ==
    TraceBuilt =>
        \A w \in built.written :
            LET grp == TraceGroup(w[1])
            IN  \E f \in Perms(Len(grp)) :
                    /\ \A k \in 1..(Len(grp) - 1) :
                           \/ Marker(grp[f[k]].Name) < Marker(grp[f[k + 1]].Name)
                           \/ /\ Marker(grp[f[k]].Name) = Marker(grp[f[k + 1]].Name)
                              /\ f[k] < f[k + 1]
                    /\ manifest[w[2]] = Some(ListText([k \in 1..Len(grp) |-> Str(grp[f[k]].Name)]))

\* the listing has the -50 file before the -100 file
C14_Witness ==
    /\ TraceBuilt
    /\ Len(listing) = 2 /\ listing[1].Name = cN2 /\ listing[2].Name = cN1
    /\ manifest["trace_bio01.txt"] = Some(<<N1, NL, N2, NL>>)

\* C15: the metadata saved for a group whose entries all carry a time marker
\* has stats.count equal to the number of entries and stats.time_ids.min and
\* .max equal to the smallest and the largest marker of the group.
C15_TraceStats ==
    TraceBuilt =>
        \A w \in built.written :
            LET grp == TraceGroup(w[1])
                markers == {Val(infer_time_id(grp[i].Name)) : i \in 1..Len(grp)}
                stats == Val(savedMd[w[2]]).stats
            IN  (\A i \in 1..Len(grp) : infer_time_id(grp[i].Name) # None) =>
                    /\ stats.count = Len(grp)
                    /\ stats.time_ids # None
                    /\ Val(stats.time_ids).min = CHOOSE m \in markers : \A n \in markers : m <= n
                    /\ Val(stats.time_ids).max = CHOOSE m \in markers : \A n \in markers : m >= n

\* the variable token of a matching present-day name, normalised: a bio number
\* of one digit gets a leading zero, every other token is kept
NormalToken(name) ==
    LET token == lower(Val(PresentSearch(name, 1))[1])
    IN  IF Len(token) = Len(cBio) + 1
        THEN Str(cBio \o <<"0", token[Len(token)]>>)
        ELSE Str(token)

\* the lines of a manifest text
Lines(text) == SelectSeq(text, LAMBDA t : t # NL)

\* C17: build_present_lists puts every matching name in the manifest of its
\* normalised variable token (bio1 -> bio01, bio12 -> bio12, scd -> scd) and
\* writes no other manifest.
C17_PresentNormalized ==
    PresentBuilt =>
        /\ \A i \in 1..Len(listing) :
               PresentSearch(listing[i].Name, 1) # None =>
                   LET var == NormalToken(listing[i].Name)
                       list_path == "present_" \o var \o ".txt"
                   IN  /\ <<var, list_path>> \in built.written
                       /\ \E k \in 1..Len(Lines(Val(manifest[list_path]))) :
                              Lines(Val(manifest[list_path]))[k] = Str(listing[i].Name)
        /\ \A w \in built.written :
               \E i \in 1..Len(listing) :
                   /\ PresentSearch(listing[i].Name, 1) # None
                   /\ w = <<NormalToken(listing[i].Name),
                            "present_" \o NormalToken(listing[i].Name) \o ".txt">>

\* a bio1 name and a bio01 name end in present_bio01.txt
C17_Witness ==
    /\ PresentBuilt
    /\ Len(listing) = 2 /\ listing[1].Name = cP1 /\ listing[2].Name = cP2
    /\ built.written = {<<"bio01", "present_bio01.txt">>}
    /\ manifest["present_bio01.txt"] = Some(<<P2, NL, P1, NL>>)

\* the pair of a list path exists
PairExists(p) == p \in DOMAIN manifest /\ manifest[p] # None /\ sidecar[p] # None

\* C21: a build_*_lists call on a listing that was built before leaves every
\* manifest it writes and the sidecar of it (list_sha1, file entries, stats)
\* as they were, and after every build each written manifest loads.
C21_RebuildIdempotent ==
    /\ [](built.status = "returned" =>
              \A w \in built.written : load_metadata(w[2])[1] = "ok")
    /\ [][built'.status = "returned" =>
              \A w \in built'.written :
                  PairExists(w[2]) =>
                      /\ manifest'[w[2]] = manifest[w[2]]
                      /\ sidecar'[w[2]] = sidecar[w[2]]]_vars

\* build_trace_lists has run twice on a listing of two groups
C21_Witness ==
    /\ builds = <<"build_trace_lists", "build_trace_lists">>
    /\ TraceBuilt
    /\ Cardinality(built.written) = 2
    /\ \A w \in built.written : PairExists(w[2]) /\ load_metadata(w[2])[1] = "ok"

\* the variable group the grouping rule gives a record that is not a
\* directory: the lower-cased token of the trace pattern, else the first
\* segment of the path
ExpectedTraceVar(rec) ==
    LET Token(match) == IF match # None THEN Str(lower(Val(match)))
                        ELSE Str(FirstSegment(Val(rec.Path)))
    IN  Token(TraceSearch(rec.Name, 1))

\* the lines of all the manifests a build has written, as <<list path, line number>>
WrittenLines == {<<w[2], k>> : w \in built.written, k \in 1..MaxEntries + 1} \cap
                {pk \in (DOMAIN manifest) \X (1..MaxEntries + 1) :
                    manifest[pk[1]] # None /\ pk[2] <= Len(Lines(Val(manifest[pk[1]])))}

\* C26: build_trace_lists never fails; it puts no directory in a manifest and
\* every other record in exactly one manifest, that of the lower-cased token
\* the trace pattern captures in its name or, without a match, that of the
\* first segment of its path.
C26_TraceGrouping ==
    built.op = "build_trace_lists" =>
        /\ built.status = "returned"
        /\ \A i \in DOMAIN listing :
               ~listing[i].IsDir =>
                   LET var == ExpectedTraceVar(listing[i])
                       list_path == "trace_" \o var \o ".txt"
                   IN  /\ <<var, list_path>> \in built.written
                       /\ \E k \in DOMAIN Lines(Val(manifest[list_path])) :
                              Lines(Val(manifest[list_path]))[k] = Str(listing[i].Name)
        /\ Cardinality(WrittenLines) = Cardinality({i \in DOMAIN listing : ~listing[i].IsDir})

\* the file entries of the metadata load_metadata returns for a list path
LoadedNames(p) ==
    LET Names(files) == [i \in DOMAIN files |-> files[i].name]
    IN  Names(Val(load_metadata(p)[2]).files)

\* C28: after a build has returned, every manifest of the returned mapping
\* loads, and the names of the loaded file entries are the lines of the
\* manifest, in the same order.
C28_MetadataMatchesManifest ==
    built.status = "returned" =>
        \A w \in built.written :
            /\ load_metadata(w[2])[1] = "ok"
            /\ LoadedNames(w[2]) = Lines(Val(manifest[w[2]]))

\* a trace build whose listing order is not the manifest order
C28_Witness ==
    /\ TraceBuilt
    /\ Len(listing) = 2 /\ listing[1].Name = cN2 /\ listing[2].Name = cN1
    /\ LoadedNames("trace_bio01.txt") = <<N1, N2>>
    /\ Lines(Val(manifest["trace_bio01.txt"])) = <<N1, N2>>

----------------------------------------------------------------------------
(* SpecRetry: one call of run_rclone *)

\* the largest retries argument
MaxRetries == 3
\* backoff: float = 2.0
Backoff == 2

\* what a failed invocation leaves in CalledProcessError.stderr and .stdout
ErrTexts == {"", "err"}
OutTexts == {"", "out"}

\* subprocess.run(..., check=True) returned
ProcOk == [ok |-> TRUE, stderr |-> "", stdout |-> ""]
\* subprocess.run(..., check=True) raised CalledProcessError
ProcFailed(stderr, stdout) == [ok |-> FALSE, stderr |-> stderr, stdout |-> stdout]

\* last_exc.stderr or last_exc.stdout
Diagnostic(e) == IF e.stderr # "" THEN e.stderr ELSE e.stdout

\* run_rclone(args, retries=r): last_exc = None, the loop is entered
RunRclone(r) ==
    /\ rclone.pc = "idle"
    /\ rclone' = [NoRun EXCEPT !.retries = r, !.pc = "for"]

\* for attempt in range(1, retries + 1): the next attempt, or the end of the range
ForAttempt ==
    /\ rclone.pc = "for"
    /\ rclone' = IF rclone.attempt + 1 <= rclone.retries
                 THEN [rclone EXCEPT !.attempt = @ + 1, !.pc = "run"]
                 ELSE [rclone EXCEPT !.pc = "after"]

\* the invocation succeeds: return proc
AttemptOk ==
    /\ rclone.pc = "run"
    /\ rclone' = [rclone EXCEPT !.calls = Append(@, ProcOk), !.pc = "returned"]

\* the invocation fails: last_exc = exc; break at the last attempt, else sleep
AttemptFail(stderr, stdout) ==
    /\ rclone.pc = "run"
    /\ rclone' = [rclone EXCEPT !.calls = Append(@, ProcFailed(stderr, stdout)),
                                !.last_exc = Some(ProcFailed(stderr, stdout)),
                                !.pc = IF rclone.attempt = rclone.retries
                                       THEN "after" ELSE "sleep"]

\* time.sleep(backoff * attempt)
Sleep ==
    /\ rclone.pc = "sleep"
    /\ rclone' = [rclone EXCEPT !.sleeps = Append(@, Backoff * rclone.attempt), !.pc = "for"]

\* after the loop: assert last_exc is not None; raise RcloneError(stderr or stdout).
\* With last_exc None the assert raises AssertionError; run with assertions
\* stripped (python -O) the attribute access on None raises AttributeError.
RaiseAfterLoop ==
    /\ rclone.pc = "after"
    /\ IF rclone.last_exc = None
       THEN \E e \in {"AssertionError", "AttributeError"} :
                rclone' = [rclone EXCEPT !.pc = "raised", !.error = e]
       ELSE rclone' = [rclone EXCEPT !.pc = "raised", !.error = "RcloneError",
                                     !.text = Diagnostic(Val(rclone.last_exc))]

InitRetry ==
    /\ EmptyLists /\ collectResult = NoCollect /\ ExecIdle /\ BuildIdle
    /\ rclone = NoRun
    /\ monitor = <<>>

NextRetry ==
    \/ \E r \in 0..MaxRetries : RunRclone(r) /\ UNCHANGED monitor /\ UNCHANGED storeVars
           /\ UNCHANGED collectVars /\ UNCHANGED execVars /\ UNCHANGED buildVars
    \/ ForAttempt /\ UNCHANGED monitor /\ UNCHANGED storeVars
           /\ UNCHANGED collectVars /\ UNCHANGED execVars /\ UNCHANGED buildVars
    \/ AttemptOk /\ UNCHANGED monitor /\ UNCHANGED storeVars
           /\ UNCHANGED collectVars /\ UNCHANGED execVars /\ UNCHANGED buildVars
    \/ \E stderr \in ErrTexts, stdout \in OutTexts :
           AttemptFail(stderr, stdout) /\ UNCHANGED monitor /\ UNCHANGED storeVars
           /\ UNCHANGED collectVars /\ UNCHANGED execVars /\ UNCHANGED buildVars
    \/ Sleep /\ UNCHANGED monitor /\ UNCHANGED storeVars
           /\ UNCHANGED collectVars /\ UNCHANGED execVars /\ UNCHANGED buildVars
    \/ RaiseAfterLoop /\ UNCHANGED monitor /\ UNCHANGED storeVars
           /\ UNCHANGED collectVars /\ UNCHANGED execVars /\ UNCHANGED buildVars

SpecRetry == InitRetry /\ [][NextRetry]_vars

\* the call has ended
RetryEnded == rclone.pc \in {"returned", "raised"}
\* the invocations made so far that failed
FailedCalls == {i \in 1..Len(rclone.calls) : ~rclone.calls[i].ok}

\* the retry contract for the calls made with the given retries values
RetryContract(values) ==
    rclone.retries \in values =>
        /\ Len(rclone.calls) <= rclone.retries
        /\ \A i \in 1..Len(rclone.calls) : rclone.calls[i].ok => i = Len(rclone.calls)
        /\ (rclone.pc = "returned") = (\E i \in 1..Len(rclone.calls) : rclone.calls[i].ok)
        /\ \A i \in 1..Len(rclone.sleeps) :
               /\ i \in FailedCalls
               /\ rclone.sleeps[i] = Backoff * i
        /\ Len(rclone.sleeps) \in {Len(rclone.calls) - 1, Len(rclone.calls)} \cap Nat
        /\ RetryEnded => Len(rclone.sleeps) = Len(rclone.calls) - 1
        /\ rclone.pc = "raised" =>
               /\ rclone.error = "RcloneError"
               /\ Len(rclone.calls) = rclone.retries
               /\ FailedCalls = 1..Len(rclone.calls)
               /\ rclone.text = Diagnostic(rclone.calls[Len(rclone.calls)])

\* C25: for every retries value, run_rclone invokes the tool at most retries
\* times, makes no attempt after a successful one and returns it, sleeps
\* backoff * attempt after failed attempt number attempt when another attempt
\* follows and not after the last, and when every attempt has failed raises
\* RcloneError with the diagnostic text of the tool.
C25_RetryContract == RetryContract(0..MaxRetries)

----------------------------------------------------------------------------
(* SpecMonitor: execute_jobs together with the progress monitors its jobs start *)

\* the jobs of a monitored run
MaxMonitored == 1

NoMonitor == [thread |-> "none", stop |-> FALSE, shown |-> None]

\* _download_one: stop_event = threading.Event(); monitor.start()
MonitorStarted(j) ==
    monitor' = [monitor EXCEPT ![j] = [thread |-> "polling", stop |-> FALSE, shown |-> None]]

\* a pool thread takes the next job; a job that is not skipped starts its monitor
MonitoredStart(j) ==
    /\ Start(j)
    /\ IF pc'[j] = "copy_to" THEN MonitorStarted(j) ELSE UNCHANGED monitor

\* stop_event.set(); monitor.join(timeout=1) after copy_to has returned
StopSet(j) ==
    /\ pc[j] = "verify"
    /\ ~monitor[j].stop
    /\ monitor' = [monitor EXCEPT ![j].stop = TRUE]
    /\ UNCHANGED execVars

\* _download_one without the finally branch
NoStopOnExit(j) == UNCHANGED monitor

\* finally: stop_event.set()
StopOnExit(j) == monitor' = [monitor EXCEPT ![j].stop = TRUE]

\* copy_to raises: the exception leaves _download_one through the finally branch
MonitoredTransferFail(j) == TransferFail(j) /\ StopOnExit(j)

\* the size check, reached after stop_event.set(); it leaves through the finally branch
MonitoredVerify(j) ==
    /\ monitor[j].stop
    /\ Verify(j)
    /\ StopOnExit(j)

\* progress.update(task_id, completed=...): the value the monitor shows for a staged size
Shown(size, total) == IF Truthy(total) THEN Min(size, Val(total)) ELSE size

\* _monitor_progress: one turn of the loop while the stop event is not set
MonitorPoll(j) ==
    /\ monitor[j].thread = "polling"
    /\ ~monitor[j].stop
    /\ LET temp == jobList[j].temp_path
       IN  monitor' = IF temp \in DOMAIN tempFiles
                      THEN [monitor EXCEPT ![j].shown =
                                Some(Shown(tempFiles[temp], jobList[j].entry.size))]
                      ELSE monitor
    /\ UNCHANGED execVars

\* _monitor_progress: the loop test finds the stop event set and the thread ends
MonitorExit(j) ==
    /\ monitor[j].thread = "polling"
    /\ monitor[j].stop
    /\ monitor' = [monitor EXCEPT ![j].thread = "stopped"]
    /\ UNCHANGED execVars

\* the job lists of a monitored run: MaxMonitored jobs at most, run without --force
MonitoredJobLists ==
    {jobs \in JobLists : Len(jobs) <= MaxMonitored /\ \A j \in 1..Len(jobs) : ~jobs[j].force}

\* no output exists, or the output of the first job does
InitMonitor ==
    /\ EmptyLists
    /\ BuildIdle
    /\ rclone = NoRun
    /\ collectResult = NoCollect
    /\ jobList \in MonitoredJobLists
    /\ maxWorkersArg = None
    /\ cfgMaxWorkers \in {1, MaxWorkers}
    /\ pcMain = "call"
    /\ pc = [j \in Jobs |-> "queued"]
    /\ rd = [j \in Jobs |-> 0]
    /\ exc = [j \in Jobs |-> ""]
    /\ handled = [j \in Jobs |-> FALSE]
    /\ summary = [processed |-> 0, skipped |-> 0, failed |-> 0]
    /\ overall = 0
    /\ aoiLoaded = FALSE
    /\ outputs \in {{}} \cup {{jobList[j].output_path} : j \in Jobs \cap {1}}
    /\ tempFiles = [t \in {} |-> 0]
    /\ hist = [j \in Jobs |-> NoHist]
    /\ monitor = [j \in Jobs |-> NoMonitor]

\* the variables no step of a monitored run changes
monitorFrame == <<manifest, sidecar, savedText, savedMd, lastCall, collectResult,
                  listing, built, fileName, timeId, builds, rclone>>

NextMonitor ==
    \/ ExecCall /\ UNCHANGED monitor /\ UNCHANGED monitorFrame
    \/ \E j \in Jobs : MonitoredStart(j) /\ UNCHANGED monitorFrame
    \/ \E j \in Jobs, size \in StagedSizes :
           TransferOk(j, size) /\ UNCHANGED monitor /\ UNCHANGED monitorFrame
    \/ \E j \in Jobs : StopSet(j) /\ UNCHANGED monitorFrame
    \/ \E j \in Jobs : MonitoredTransferFail(j) /\ UNCHANGED monitorFrame
    \/ \E j \in Jobs : MonitoredVerify(j) /\ UNCHANGED monitorFrame
    \/ \E j \in Jobs : ClipOk(j) /\ UNCHANGED monitor /\ UNCHANGED monitorFrame
    \/ \E j \in Jobs : ClipFail(j) /\ UNCHANGED monitor /\ UNCHANGED monitorFrame
    \/ \E j \in Jobs : WriteOk(j) /\ UNCHANGED monitor /\ UNCHANGED monitorFrame
    \/ \E j \in Jobs : WriteFail(j) /\ UNCHANGED monitor /\ UNCHANGED monitorFrame
    \/ \E j \in Jobs : Unlink(j) /\ UNCHANGED monitor /\ UNCHANGED monitorFrame
    \/ \E j \in Jobs : CountRead(j) /\ UNCHANGED monitor /\ UNCHANGED monitorFrame
    \/ \E j \in Jobs : CountWrite(j) /\ UNCHANGED monitor /\ UNCHANGED monitorFrame
    \/ \E j \in Jobs : Completed(j) /\ UNCHANGED monitor /\ UNCHANGED monitorFrame
    \/ ExecReturn /\ UNCHANGED monitor /\ UNCHANGED monitorFrame
    \/ \E j \in Jobs : MonitorPoll(j) /\ UNCHANGED monitorFrame
    \/ \E j \in Jobs : MonitorExit(j) /\ UNCHANGED monitorFrame

\* the threads run, and every transfer and transform call ends
SpecMonitor == InitMonitor /\ [][NextMonitor]_vars /\ WF_vars(NextMonitor)

\* the jobs whose transfer step has been left: _download_one has returned
\* "downloaded" or raised
TransferLeft == {j \in Jobs : hist[j].copy /\ pc[j] \notin {"copy_to", "verify"}}
\* the pool threads running a job
Busy == {j \in Jobs : Running(j)}
\* the state of the monitor thread of job j ("none" when the run has no job j)
ThreadOf(j) == IF j \in Jobs THEN monitor[j].thread ELSE "none"
\* a step of the monitor thread of job j: it shows a value or it ends
MonitorStep(j) ==
    \/ monitor'[j].shown # monitor[j].shown
    \/ monitor[j].thread = "polling" /\ monitor'[j].thread = "stopped"

====
